---- MODULE Spec2Model ----
(***************************************************************************)
(* Data Alchemist: the store (DataContext reducer), the validator          *)
(* (utils/validator.ts) and the handlers that drive them (DataGrid         *)
(* saveEdit, FileUpload handleFiles, ExportControls, BusinessRulesEditor). *)
(*                                                                         *)
(* Conventions.  A JavaScript template string is modelled as the tuple of  *)
(* its literal pieces and interpolated values, so `client_${index}_no_id`  *)
(* is <<"client", index, "no_id">>; two template strings are equal exactly *)
(* when the tuples are.  Collection indexes in finding ids are the         *)
(* JavaScript ones (0-based): record i of a TLA+ sequence has index i-1.   *)
(* The `suggestion` text of a finding is a constant of its rule and is     *)
(* left out of the finding record.                                         *)
(***************************************************************************)
EXTENDS Integers, Sequences, FiniteSets, TLC

VARIABLES
  clients,           \* state.clients
  workers,           \* state.workers
  tasks,             \* state.tasks
  validationErrors,  \* state.validationErrors
  businessRules,     \* state.businessRules
  ruleSuggestions,   \* state.ruleSuggestions
  timers,            \* pending setTimeout callbacks of saveEdit, each with the state its closure captured
  uploads,           \* handleFiles calls in flight (awaiting parseFile), each with its processedData
  clock,             \* Date.now()
  edits,             \* number of saveEdit calls so far
  lastAction,        \* the handler that ran last and what it did (observation only)
  vrun,              \* result of the last direct validateData call
  vheap,             \* the Set objects earlier validateData calls allocated and left behind
  vfirst,            \* result of the first direct validateData call on the collections
  search,            \* the last searchWithNaturalLanguage call: its query and its result
  sheet,             \* the rows of the sheet handed to the file parser
  prioritySettings,  \* state.prioritySettings
  priorityProfile    \* state.priorityProfile

vars == <<clients, workers, tasks, validationErrors, businessRules,
          ruleSuggestions, timers, uploads, clock, edits, lastAction, vrun,
          vheap, vfirst, search, sheet, prioritySettings, priorityProfile>>

(***************************************************************************)
(* Bounds                                                                  *)
(***************************************************************************)
MaxRecs == 2        \* longest collections validated together
MaxDeep == 3        \* longest collection validated on its own
MaxTimers == 1      \* re-validation timers pending at once
MaxUploads == 1     \* handleFiles calls in flight at once
MaxEdits == 2       \* saveEdit calls in one run
MaxClock == 2       \* last value of Date.now()
MaxRules == 2       \* rules created in one run
MaxCalls == 3       \* validateData calls in one run
MaxOverlap == 2     \* handleFiles calls in flight at once, uploads alone

(***************************************************************************)
(* JavaScript values                                                       *)
(***************************************************************************)
\* AvailableSlots as a JavaScript value: an array, or something that is not one.
JsArray(items) == [kind |-> "array", items |-> items]
JsNull == [kind |-> "null", items |-> <<>>]
JsUndefined == [kind |-> "undefined", items |-> <<>>]
\* a string value; items are its characters
JsString(chars) == [kind |-> "string", items |-> chars]

\* Array.isArray(v)
IsArray(v) == v.kind = "array"
\* v.length is a TypeError on null and undefined
HasLength(v) == v.kind \in {"array", "string"}
\* v.forEach is a function only on arrays
HasForEach(v) == v.kind = "array"

\* AttributesJSON as a JavaScript value: "object"; a non-empty string, either
\* one that JSON.parse turns into an object ("jsonText", e.g. '{"a":1}') or
\* one that it does not ("text", e.g. '{a:'); or a falsy value ("absent":
\* undefined, null or the empty string)
AttrTruthy(a) == a # "absent"
AttrTypeofObject(a) == a = "object"

NoField == "(none)"

\* what lastAction records: the handler and whether it went through
Did(type, done) == [type |-> type, done |-> done, arg |-> <<>>]
\* the same for a handler called with an argument
DidWith(type, done, arg) == [type |-> type, done |-> done, arg |-> arg]

RECURSIVE FlatSeq(_)
FlatSeq(ss) == IF ss = <<>> THEN <<>> ELSE Head(ss) \o FlatSeq(Tail(ss))

Range(s) == {s[i] : i \in 1..Len(s)}

Min(S) == CHOOSE x \in S : \A y \in S : x <= y

\* the value of an exception escaping validateData
Thrown == [threw |-> TRUE, errors |-> <<>>]
Returned(errs) == [threw |-> FALSE, errors |-> errs]

Finding(id, type, entity, rowId, field, message) ==
  [id |-> id, type |-> type, entity |-> entity, rowId |-> rowId,
   field |-> field, message |-> message]

\* client.ClientID || `row_${index}`
RowId(id, index) == IF id # "" THEN <<id>> ELSE <<"row", index>>

(***************************************************************************)
(* validateClients                                                         *)
(***************************************************************************)
\* const seenIds = new Set<string>() (lines 30, 107, 224): every call starts
\* with a Set of its own, empty whatever the Sets of earlier calls held
NewSetMut(left) == left

NewSet(left) == {}

\* the duplicate branch: id is truthy and already in seenIds
IsDuplicateId(id, seenIds) == id # "" /\ id \in seenIds

\* seenIds after the record: a truthy id that was not a duplicate is added
SeenAfterMut(id, seenIds) == seenIds

SeenAfter(id, seenIds) ==
  IF IsDuplicateId(id, seenIds) THEN seenIds
  ELSE IF id # "" THEN seenIds \cup {id} ELSE seenIds

\* line 76: client.PriorityLevel < 1 || client.PriorityLevel > 5
InvalidPriorityMut(client) == client.PriorityLevel < 1 \/ client.PriorityLevel >= 5

InvalidPriority(client) == client.PriorityLevel < 1 \/ client.PriorityLevel > 5

clientFindings(client, index, seenIds) ==
  LET rowId == RowId(client.ClientID, index) IN
  (IF client.ClientID = ""
     THEN <<Finding(<<"client", index, "no_id">>, "error", "clients", rowId,
                    "ClientID", <<"ClientID is required">>)>>
     ELSE <<>>)
  \o
  (IF client.ClientName = ""
     THEN <<Finding(<<"client", index, "no_name">>, "error", "clients", rowId,
                    "ClientName", <<"Client name is required">>)>>
     ELSE <<>>)
  \o
  (IF IsDuplicateId(client.ClientID, seenIds)
     THEN <<Finding(<<"client", index, "duplicate_id">>, "error", "clients", rowId,
                    "ClientID", <<"Duplicate ClientID: ", client.ClientID>>)>>
     ELSE <<>>)
  \o
  (IF InvalidPriority(client)
     THEN <<Finding(<<"client", index, "invalid_priority">>, "error", "clients", rowId,
                    "PriorityLevel", <<"PriorityLevel must be between 1 and 5">>)>>
     ELSE <<>>)
  \o
  (IF AttrTruthy(client.AttributesJSON) /\ ~AttrTypeofObject(client.AttributesJSON)
     THEN <<Finding(<<"client", index, "invalid_json">>, "error", "clients", rowId,
                    "AttributesJSON", <<"Invalid JSON format in AttributesJSON">>)>>
     ELSE <<>>)

RECURSIVE validateClientsFrom(_, _, _)
validateClientsFrom(cs, i, seenIds) ==
  IF i > Len(cs) THEN <<>>
  ELSE clientFindings(cs[i], i - 1, seenIds)
       \o validateClientsFrom(cs, i + 1, SeenAfter(cs[i].ClientID, seenIds))

\* validateClients called when earlier calls left the Set `left` behind
validateClientsIn(cs, left) == Returned(validateClientsFrom(cs, 1, NewSet(left)))

validateClients(cs) == validateClientsIn(cs, {})

\* seenIds at the end of the forEach over the id column ids
RECURSIVE SeenIds(_, _)
SeenIds(ids, seenIds) ==
  IF ids = <<>> THEN seenIds
  ELSE SeenIds(Tail(ids), SeenAfter(Head(ids), seenIds))

(***************************************************************************)
(* validateWorkers                                                         *)
(***************************************************************************)
\* lines 152-177: the no_slots / invalid_slots branch
slotFindings(worker, index, rowId) ==
  IF ~IsArray(worker.AvailableSlots) \/ Len(worker.AvailableSlots.items) = 0
    THEN <<Finding(<<"worker", index, "no_slots">>, "error", "workers", rowId,
                   "AvailableSlots",
                   <<"AvailableSlots must be a non-empty array of numbers">>)>>
    ELSE \* typeof slot !== 'number' || isNaN(slot): the modelled slots are all numbers
         <<>>

\* line 193: worker.AvailableSlots.length < worker.MaxLoadPerPhase
IsOverloadedMut(worker) ==
  /\ Len(worker.AvailableSlots.items) > 0
  /\ Len(worker.AvailableSlots.items) < worker.MaxLoadPerPhase

IsOverloaded(worker) == Len(worker.AvailableSlots.items) < worker.MaxLoadPerPhase

\* line 193 dereferences AvailableSlots.length whatever line 153 found
workerThrows(worker) == ~HasLength(worker.AvailableSlots)

workerFindings(worker, index, seenIds) ==
  LET rowId == RowId(worker.WorkerID, index) IN
  (IF worker.WorkerID = ""
     THEN <<Finding(<<"worker", index, "no_id">>, "error", "workers", rowId,
                    "WorkerID", <<"WorkerID is required">>)>>
     ELSE <<>>)
  \o
  (IF worker.WorkerName = ""
     THEN <<Finding(<<"worker", index, "no_name">>, "error", "workers", rowId,
                    "WorkerName", <<"Worker name is required">>)>>
     ELSE <<>>)
  \o
  (IF IsDuplicateId(worker.WorkerID, seenIds)
     THEN <<Finding(<<"worker", index, "duplicate_id">>, "error", "workers", rowId,
                    "WorkerID", <<"Duplicate WorkerID: ", worker.WorkerID>>)>>
     ELSE <<>>)
  \o
  slotFindings(worker, index, rowId)
  \o
  (IF worker.MaxLoadPerPhase < 1
     THEN <<Finding(<<"worker", index, "invalid_load">>, "error", "workers", rowId,
                    "MaxLoadPerPhase", <<"MaxLoadPerPhase must be at least 1">>)>>
     ELSE <<>>)
  \o
  (IF IsOverloaded(worker)
     THEN <<Finding(<<"worker", index, "overloaded">>, "warning", "workers", rowId,
                    "MaxLoadPerPhase", <<"MaxLoadPerPhase exceeds available slots">>)>>
     ELSE <<>>)
  \o
  (IF AttrTruthy(worker.AttributesJSON) /\ ~AttrTypeofObject(worker.AttributesJSON)
     THEN <<Finding(<<"worker", index, "invalid_json">>, "error", "workers", rowId,
                    "AttributesJSON", <<"Invalid JSON format in AttributesJSON">>)>>
     ELSE <<>>)

RECURSIVE validateWorkersFrom(_, _, _)
validateWorkersFrom(ws, i, seenIds) ==
  IF i > Len(ws) THEN <<>>
  ELSE workerFindings(ws[i], i - 1, seenIds)
       \o validateWorkersFrom(ws, i + 1, SeenAfter(ws[i].WorkerID, seenIds))

validateWorkersIn(ws, left) ==
  IF \E i \in 1..Len(ws) : workerThrows(ws[i]) THEN Thrown
  ELSE Returned(validateWorkersFrom(ws, 1, NewSet(left)))

validateWorkers(ws) == validateWorkersIn(ws, {})

(***************************************************************************)
(* validateTasks                                                           *)
(***************************************************************************)
taskFindings(task, index, seenIds) ==
  LET rowId == RowId(task.TaskID, index) IN
  (IF task.TaskID = ""
     THEN <<Finding(<<"task", index, "no_id">>, "error", "tasks", rowId,
                    "TaskID", <<"TaskID is required">>)>>
     ELSE <<>>)
  \o
  (IF task.TaskName = ""
     THEN <<Finding(<<"task", index, "no_name">>, "error", "tasks", rowId,
                    "TaskName", <<"Task name is required">>)>>
     ELSE <<>>)
  \o
  (IF IsDuplicateId(task.TaskID, seenIds)
     THEN <<Finding(<<"task", index, "duplicate_id">>, "error", "tasks", rowId,
                    "TaskID", <<"Duplicate TaskID: ", task.TaskID>>)>>
     ELSE <<>>)
  \o
  (IF task.Duration < 1
     THEN <<Finding(<<"task", index, "invalid_duration">>, "error", "tasks", rowId,
                    "Duration", <<"Duration must be at least 1">>)>>
     ELSE <<>>)
  \o
  (IF task.MaxConcurrent < 1
     THEN <<Finding(<<"task", index, "invalid_concurrent">>, "error", "tasks", rowId,
                    "MaxConcurrent", <<"MaxConcurrent must be at least 1">>)>>
     ELSE <<>>)
  \o
  (IF AttrTruthy(task.AttributesJSON) /\ ~AttrTypeofObject(task.AttributesJSON)
     THEN <<Finding(<<"task", index, "invalid_json">>, "error", "tasks", rowId,
                    "AttributesJSON", <<"Invalid JSON format in AttributesJSON">>)>>
     ELSE <<>>)

RECURSIVE validateTasksFrom(_, _, _)
validateTasksFrom(ts, i, seenIds) ==
  IF i > Len(ts) THEN <<>>
  ELSE taskFindings(ts[i], i - 1, seenIds)
       \o validateTasksFrom(ts, i + 1, SeenAfter(ts[i].TaskID, seenIds))

validateTasksIn(ts, left) == Returned(validateTasksFrom(ts, 1, NewSet(left)))

validateTasks(ts) == validateTasksIn(ts, {})

(***************************************************************************)
(* validateCrossEntityReferences                                           *)
(***************************************************************************)
\* new Set(tasks.map(t => t.TaskID).filter(Boolean))
taskIdSetMut(ts) == {ts[i].TaskID : i \in 1..Len(ts)}

taskIdSet(ts) == {ts[i].TaskID : i \in 1..Len(ts)} \ {""}

\* new Set(workers.flatMap(w => w.Skills))
allSkillSetMut(ws) == IF ws = <<>> THEN {} ELSE Range(ws[1].Skills)

allSkillSet(ws) == UNION {Range(ws[i].Skills) : i \in 1..Len(ws)}

\* lines 325-337: one finding for every entry of RequestedTaskIDs that is not in taskIds
RECURSIVE unknownTaskFindings(_, _, _, _)
unknownTaskFindings(requested, index, rowId, taskIds) ==
  IF requested = <<>> THEN <<>>
  ELSE (IF Head(requested) \notin taskIds
          THEN <<Finding(<<"client", index, "unknown_task", Head(requested)>>, "error",
                         "clients", rowId, "RequestedTaskIDs",
                         <<"Unknown task reference: ", Head(requested)>>)>>
          ELSE <<>>)
       \o unknownTaskFindings(Tail(requested), index, rowId, taskIds)

RECURSIVE clientReferenceFindings(_, _, _)
clientReferenceFindings(cs, i, taskIds) ==
  IF i > Len(cs) THEN <<>>
  ELSE unknownTaskFindings(cs[i].RequestedTaskIDs, i - 1,
                           RowId(cs[i].ClientID, i - 1), taskIds)
       \o clientReferenceFindings(cs, i + 1, taskIds)

\* lines 344-356: one finding for every entry of RequiredSkills that no worker has
RECURSIVE missingSkillFindings(_, _, _, _)
missingSkillFindings(required, index, rowId, allSkills) ==
  IF required = <<>> THEN <<>>
  ELSE (IF Head(required) \notin allSkills
          THEN <<Finding(<<"task", index, "missing_skill", Head(required)>>, "warning",
                         "tasks", rowId, "RequiredSkills",
                         <<"No workers have required skill: ", Head(required)>>)>>
          ELSE <<>>)
       \o missingSkillFindings(Tail(required), index, rowId, allSkills)

\* workers.filter(w => task.RequiredSkills.every(skill => w.Skills.includes(skill))).length
qualifiedWorkersMut(ws, task) ==
  Cardinality({i \in 1..Len(ws) :
                 \E s \in Range(task.RequiredSkills) : s \in Range(ws[i].Skills)})

qualifiedWorkers(ws, task) ==
  Cardinality({i \in 1..Len(ws) :
                 \A s \in Range(task.RequiredSkills) : s \in Range(ws[i].Skills)})

\* lines 363-373
insufficientWorkersFindings(ws, task, index, rowId) ==
  IF qualifiedWorkers(ws, task) < task.MaxConcurrent
    THEN <<Finding(<<"task", index, "insufficient_workers">>, "warning", "tasks", rowId,
                   "MaxConcurrent",
                   <<"MaxConcurrent (", task.MaxConcurrent,
                     ") exceeds qualified workers (", qualifiedWorkers(ws, task), ")">>)>>
    ELSE <<>>

\* lines 341-374 with the two checks of a task in the other order
RECURSIVE taskCoverageFindingsMut(_, _, _, _)
taskCoverageFindingsMut(ts, i, ws, allSkills) ==
  IF i > Len(ts) THEN <<>>
  ELSE insufficientWorkersFindings(ws, ts[i], i - 1, RowId(ts[i].TaskID, i - 1))
       \o missingSkillFindings(ts[i].RequiredSkills, i - 1, RowId(ts[i].TaskID, i - 1), allSkills)
       \o taskCoverageFindingsMut(ts, i + 1, ws, allSkills)

RECURSIVE taskCoverageFindings(_, _, _, _)
taskCoverageFindings(ts, i, ws, allSkills) ==
  IF i > Len(ts) THEN <<>>
  ELSE missingSkillFindings(ts[i].RequiredSkills, i - 1, RowId(ts[i].TaskID, i - 1), allSkills)
       \o insufficientWorkersFindings(ws, ts[i], i - 1, RowId(ts[i].TaskID, i - 1))
       \o taskCoverageFindings(ts, i + 1, ws, allSkills)

validateCrossEntityReferences(cs, ws, ts) ==
  Returned(clientReferenceFindings(cs, 1, taskIdSet(ts))
           \o taskCoverageFindings(ts, 1, ws, allSkillSet(ws)))

(***************************************************************************)
(* validateAdvancedConstraints                                             *)
(***************************************************************************)
\* number of entries of the list s equal to x
RECURSIVE Occurrences(_, _)
Occurrences(s, x) ==
  IF s = <<>> THEN 0
  ELSE (IF Head(s) = x THEN 1 ELSE 0) + Occurrences(Tail(s), x)

\* the keys of a Map filled by set() while walking s, in insertion order
RECURSIVE MapKeys(_, _)
MapKeys(s, seen) ==
  IF s = <<>> THEN <<>>
  ELSE IF Head(s) \in seen THEN MapKeys(Tail(s), seen)
       ELSE <<Head(s)>> \o MapKeys(Tail(s), seen \cup {Head(s)})

\* phaseSlotMap.get(phase) || 0 after lines 388-392: every entry of every
\* worker's AvailableSlots adds that worker's MaxLoadPerPhase
RECURSIVE phaseSlotMap(_, _)
phaseSlotMap(ws, phase) ==
  IF ws = <<>> THEN 0
  ELSE Occurrences(Head(ws).AvailableSlots.items, phase) * Head(ws).MaxLoadPerPhase
       + phaseSlotMap(Tail(ws), phase)

\* phaseDemandMap.get(phase) after lines 395-399: every entry of every task's
\* PreferredPhases adds that task's Duration
RECURSIVE phaseDemandMap(_, _)
phaseDemandMap(ts, phase) ==
  IF ts = <<>> THEN 0
  ELSE Occurrences(Head(ts).PreferredPhases, phase) * Head(ts).Duration
       + phaseDemandMap(Tail(ts), phase)

\* the keys of phaseDemandMap in insertion order
demandPhases(ts) == MapKeys(FlatSeq([i \in 1..Len(ts) |-> ts[i].PreferredPhases]), {})

\* lines 401-413
RECURSIVE saturationFindings(_, _, _)
saturationFindings(phases, ws, ts) ==
  IF phases = <<>> THEN <<>>
  ELSE LET phase == Head(phases)
           demand == phaseDemandMap(ts, phase)
           supply == phaseSlotMap(ws, phase)
       IN (IF demand > supply
             THEN <<Finding(<<"phase", phase, "oversaturated">>, "warning", "tasks",
                            <<"system">>, NoField,
                            <<"Phase ", phase, " is oversaturated: demand (", demand,
                              ") exceeds supply (", supply, ")">>)>>
             ELSE <<>>)
          \o saturationFindings(Tail(phases), ws, ts)

validateAdvancedConstraints(cs, ws, ts) ==
  IF \E i \in 1..Len(ws) : ~HasForEach(ws[i].AvailableSlots) THEN Thrown
  ELSE Returned(saturationFindings(demandPhases(ts), ws, ts))

(***************************************************************************)
(* validateData                                                            *)
(***************************************************************************)
\* validateData called when earlier calls left the Sets of heap behind
validateDataIn(cs, ws, ts, heap) ==
  LET passes == << validateClientsIn(cs, heap.clients), validateWorkersIn(ws, heap.workers),
                   validateTasksIn(ts, heap.tasks),
                   validateCrossEntityReferences(cs, ws, ts),
                   validateAdvancedConstraints(cs, ws, ts) >>
  IN IF \E k \in 1..Len(passes) : passes[k].threw THEN Thrown
     ELSE Returned(FlatSeq([k \in 1..Len(passes) |-> passes[k].errors]))

validateData(cs, ws, ts) ==
  validateDataIn(cs, ws, ts, [clients |-> {}, workers |-> {}, tasks |-> {}])

\* the Sets a validateData call leaves behind (validateTasks is not reached
\* when validateWorkers throws)
HeapAfter(cs, ws, ts, heap) ==
  [heap EXCEPT
     !.clients = SeenIds([i \in 1..Len(cs) |-> cs[i].ClientID], NewSet(heap.clients)),
     !.workers = SeenIds([i \in 1..Len(ws) |-> ws[i].WorkerID], NewSet(heap.workers)),
     !.tasks = IF validateWorkersIn(ws, heap.workers).threw THEN heap.tasks
               ELSE SeenIds([i \in 1..Len(ts) |-> ts[i].TaskID], NewSet(heap.tasks))]

(***************************************************************************)
(* Sample records                                                          *)
(***************************************************************************)
Client(id, name, priority, requested, attrs) ==
  [ClientID |-> id, ClientName |-> name, PriorityLevel |-> priority,
   RequestedTaskIDs |-> requested, AttributesJSON |-> attrs]

Worker(id, name, skills, slots, load, attrs) ==
  [WorkerID |-> id, WorkerName |-> name, Skills |-> skills,
   AvailableSlots |-> slots, MaxLoadPerPhase |-> load, AttributesJSON |-> attrs]

Task(id, name, duration, skills, phases, concurrent, attrs) ==
  [TaskID |-> id, TaskName |-> name, Duration |-> duration, RequiredSkills |-> skills,
   PreferredPhases |-> phases, MaxConcurrent |-> concurrent, AttributesJSON |-> attrs]

ClientSamples ==
  { Client("C1", "Acme", 3, <<"T1", "T2">>, "object"),
    Client("C1", "", 6, <<"T9", "T9">>, "text"),
    Client("", "Beta", 0, <<"", "T1">>, "absent"),
    Client("C2", "Gamma", 5, <<>>, "jsonText") }

WorkerSamples ==
  { Worker("W1", "Ann", <<"js", "py">>, JsArray(<<1, 2>>), 4, "object"),
    Worker("W1", "", <<"js">>, JsArray(<<2, 2, 3>>), 2, "text"),
    Worker("W2", "Cy", <<>>, JsArray(<<>>), 1, "absent"),
    Worker("", "Di", <<"py">>, JsArray(<<>>), 0, "jsonText") }

\* workers whose AvailableSlots is not an array
MalformedWorkerSamples ==
  { Worker("W3", "Ed", <<"js">>, JsNull, 1, "object"),
    Worker("W4", "Flo", <<"js">>, JsUndefined, 2, "object"),
    Worker("W5", "Gus", <<"py">>, JsString(<<"1", ",", "2">>), 2, "object") }

TaskSamples ==
  { Task("T1", "Build", 12, <<"js">>, <<2>>, 3, "object"),
    Task("T1", "", 3, <<"go", "go">>, <<2, 2>>, 1, "text"),
    Task("", "Test", 0, <<>>, <<1, 3>>, 0, "absent"),
    Task("T2", "Ship", 6, <<"js", "py">>, <<3, 2>>, 2, "jsonText") }

SeqsUpTo(S, n) == UNION {[1..k -> S] : k \in 0..n}

(***************************************************************************)
(* The store                                                               *)
(***************************************************************************)
\* initialState
InitStore ==
  /\ clients = <<>>
  /\ workers = <<>>
  /\ tasks = <<>>
  /\ validationErrors = <<>>
  /\ businessRules = <<>>
  /\ ruleSuggestions = <<>>

\* initialState.prioritySettings and initialState.priorityProfile
InitPriority ==
  /\ prioritySettings = [priorityLevel |-> 25, taskFulfillment |-> 20,
                         fairnessConstraints |-> 15, skillMatching |-> 15,
                         phaseOptimization |-> 10, workloadBalance |-> 10,
                         clientSatisfaction |-> 3, resourceUtilization |-> 2]
  /\ priorityProfile = "balanced"

\* no sheet has been handed to the parser
NoSheet == [entity |-> "none", rows |-> <<>>, parsed |-> FALSE]

NotRun == [done |-> FALSE, threw |-> FALSE, errors |-> <<>>]

\* no validateData call has happened: nothing was allocated
NoHeap == [trail |-> <<>>, clients |-> {}, workers |-> {}, tasks |-> {}]

NotSearched == [done |-> FALSE, query |-> <<>>, criteria |-> <<>>, scored |-> <<>>,
                results |-> <<>>]

(***************************************************************************)
(* validateData as a function: every input within the bounds, one call     *)
(***************************************************************************)
\* clients with tasks, workers with tasks, and each collection alone at full depth
InitValidator ==
  /\ \/ /\ clients \in SeqsUpTo(ClientSamples, MaxRecs)
        /\ workers \in SeqsUpTo(WorkerSamples, 1)
        /\ tasks \in SeqsUpTo(TaskSamples, MaxRecs)
     \/ /\ clients \in SeqsUpTo(ClientSamples, 1)
        /\ workers \in SeqsUpTo(WorkerSamples, MaxRecs)
        /\ tasks \in SeqsUpTo(TaskSamples, MaxRecs)
     \/ /\ clients \in SeqsUpTo(ClientSamples, MaxDeep)
        /\ workers = <<>>
        /\ tasks = <<>>
     \/ /\ clients = <<>>
        /\ workers \in SeqsUpTo(WorkerSamples, MaxDeep)
        /\ tasks = <<>>
     \/ /\ clients = <<>>
        /\ workers = <<>>
        /\ tasks \in SeqsUpTo(TaskSamples, MaxDeep)
  /\ validationErrors = <<>>
  /\ businessRules = <<>>
  /\ ruleSuggestions = <<>>
  /\ timers = <<>>
  /\ uploads = <<>>
  /\ clock = 0
  /\ edits = 0
  /\ lastAction = Did("init", FALSE)
  /\ vrun = NotRun
  /\ vheap = NoHeap
  /\ vfirst = NotRun
  /\ search = NotSearched
  /\ sheet = NoSheet
  /\ InitPriority

\* the same with workers whose AvailableSlots may be anything
InitMalformed ==
  /\ clients \in SeqsUpTo(ClientSamples, 1)
  /\ workers \in SeqsUpTo(WorkerSamples \cup MalformedWorkerSamples, MaxRecs)
  /\ tasks \in SeqsUpTo(TaskSamples, 1)
  /\ validationErrors = <<>>
  /\ businessRules = <<>>
  /\ ruleSuggestions = <<>>
  /\ timers = <<>>
  /\ uploads = <<>>
  /\ clock = 0
  /\ edits = 0
  /\ lastAction = Did("init", FALSE)
  /\ vrun = NotRun
  /\ vheap = NoHeap
  /\ vfirst = NotRun
  /\ search = NotSearched
  /\ sheet = NoSheet
  /\ InitPriority

\* const errors = validateData(clients, workers, tasks)
RunValidateData ==
  /\ ~vrun.done
  /\ vrun' = [done |-> TRUE,
              threw |-> validateData(clients, workers, tasks).threw,
              errors |-> validateData(clients, workers, tasks).errors]
  /\ lastAction' = Did("validateData", TRUE)
  /\ UNCHANGED <<clients, workers, tasks, validationErrors, businessRules,
                 ruleSuggestions, timers, uploads, clock, edits, vheap, vfirst, search, sheet,
                 prioritySettings, priorityProfile>>

NextValidator == RunValidateData

SpecValidator == InitValidator /\ [][NextValidator]_vars

SpecMalformed == InitMalformed /\ [][NextValidator]_vars

(***************************************************************************)
(* validateData called again and again: the same collections by one caller, *)
(* other collections by another caller in between                          *)
(***************************************************************************)
InitRerun ==
  /\ clients \in SeqsUpTo(ClientSamples, 1)
  /\ workers \in SeqsUpTo(WorkerSamples, 1)
  /\ tasks \in SeqsUpTo(TaskSamples, MaxRecs)
  /\ validationErrors = <<>>
  /\ businessRules = <<>>
  /\ ruleSuggestions = <<>>
  /\ timers = <<>>
  /\ uploads = <<>>
  /\ clock = 0
  /\ edits = 0
  /\ lastAction = Did("init", FALSE)
  /\ vrun = NotRun
  /\ vheap = NoHeap
  /\ vfirst = NotRun
  /\ search = NotSearched
  /\ sheet = NoSheet
  /\ InitPriority

\* what the other caller validates
OtherInputs ==
  { [clients |-> <<Client("C1", "Acme", 3, <<"T1", "T2">>, "object")>>,
     workers |-> <<>>, tasks |-> <<>>],
    [clients |-> <<>>,
     workers |-> <<Worker("W1", "Ann", <<"js", "py">>, JsArray(<<1, 2>>), 4, "object")>>,
     tasks |-> <<Task("T1", "Build", 12, <<"js">>, <<2>>, 3, "object")>>] }

\* validateData(clients, workers, tasks) once more
CallValidateData ==
  /\ Len(vheap.trail) < MaxCalls
  /\ LET r == validateDataIn(clients, workers, tasks, vheap)
         run == [done |-> TRUE, threw |-> r.threw, errors |-> r.errors]
     IN /\ vrun' = run
        /\ vfirst' = IF vfirst.done THEN vfirst ELSE run
  /\ vheap' = [HeapAfter(clients, workers, tasks, vheap) EXCEPT !.trail = Append(@, "own")]
  /\ lastAction' = Did("validateData", TRUE)
  /\ UNCHANGED <<clients, workers, tasks, validationErrors, businessRules,
                 ruleSuggestions, timers, uploads, clock, edits, search, sheet,
                 prioritySettings, priorityProfile>>

\* validateData called by another caller on its own collections
CallValidateDataElsewhere(other) ==
  /\ Len(vheap.trail) < MaxCalls
  /\ vheap' = [HeapAfter(other.clients, other.workers, other.tasks, vheap)
                 EXCEPT !.trail = Append(@, "other")]
  /\ lastAction' = Did("validateData elsewhere", TRUE)
  /\ UNCHANGED <<clients, workers, tasks, validationErrors, businessRules,
                 ruleSuggestions, timers, uploads, clock, edits, vrun, vfirst, search, sheet,
                 prioritySettings, priorityProfile>>

NextRerun ==
  \/ CallValidateData
  \/ \E other \in OtherInputs : CallValidateDataElsewhere(other)

SpecRerun == InitRerun /\ [][NextRerun]_vars

(***************************************************************************)
(* dataReducer                                                             *)
(***************************************************************************)
\* { ...record, ...patch } for the one-field patch { [field]: value }
Patched(record, field, value) == [record EXCEPT ![field] = value]

\* case 'UPDATE_CLIENT': every client whose ClientID is the payload id is patched
UPDATE_CLIENT(cs, id, field, value) ==
  [i \in 1..Len(cs) |-> IF cs[i].ClientID = id THEN Patched(cs[i], field, value) ELSE cs[i]]

\* case 'UPDATE_WORKER'
UPDATE_WORKER(ws, id, field, value) ==
  [i \in 1..Len(ws) |-> IF ws[i].WorkerID = id THEN Patched(ws[i], field, value) ELSE ws[i]]

\* case 'UPDATE_TASK'
UPDATE_TASK(ts, id, field, value) ==
  [i \in 1..Len(ts) |-> IF ts[i].TaskID = id THEN Patched(ts[i], field, value) ELSE ts[i]]

(***************************************************************************)
(* DataGrid: saveEdit                                                      *)
(***************************************************************************)
\* The text of the edit box is modelled as the sequence of its comma-separated
\* pieces, each already trimmed; <<"">> is the empty text.
ListFields == {"RequestedTaskIDs", "Skills", "RequiredSkills", "PreferredPhases", "AvailableSlots"}
NumberListFields == {"PreferredPhases", "AvailableSlots"}
NumberFields == {"Duration", "PriorityLevel", "MaxConcurrent", "MaxLoadPerPhase", "QualificationLevel"}

\* parseInt(v, 10) on the texts the model types in; anything else is NaN
IsNumeral(v) == v \in {"0", "1", "2", "3", "4", "6", "12"}
ParseInt(v) ==
  CASE v = "0" -> 0 [] v = "1" -> 1 [] v = "2" -> 2 [] v = "3" -> 3
    [] v = "4" -> 4 [] v = "6" -> 6 [] v = "12" -> 12

RECURSIVE Truthy(_)
\* .filter(Boolean) on a list of strings
Truthy(pieces) ==
  IF pieces = <<>> THEN <<>>
  ELSE (IF Head(pieces) # "" THEN <<Head(pieces)>> ELSE <<>>) \o Truthy(Tail(pieces))

RECURSIVE ParseInts(_)
\* .map(v => parseInt(v, 10)).filter(n => !isNaN(n))
ParseInts(pieces) ==
  IF pieces = <<>> THEN <<>>
  ELSE (IF IsNumeral(Head(pieces)) THEN <<ParseInt(Head(pieces))>> ELSE <<>>)
       \o ParseInts(Tail(pieces))

\* lines 471-504: the value saveEdit stores for the text typed into a cell
processedValue(field, editValue) ==
  IF field \in NumberListFields
    THEN IF field = "AvailableSlots"
           THEN JsArray(ParseInts(Truthy(editValue)))
           ELSE ParseInts(Truthy(editValue))
  ELSE IF field \in ListFields THEN Truthy(editValue)
  ELSE IF field \in NumberFields THEN ParseInt(editValue[1])
  ELSE editValue[1]

\* the cells the model edits and the texts it types
EditSamples ==
  << [entityType |-> "clients", field |-> "ClientName", editValue |-> <<"">>],
     [entityType |-> "clients", field |-> "RequestedTaskIDs", editValue |-> <<"T1", "", "T9">>],
     [entityType |-> "workers", field |-> "AvailableSlots", editValue |-> <<"x">>],
     [entityType |-> "workers", field |-> "WorkerID", editValue |-> <<"">>],
     [entityType |-> "tasks", field |-> "Duration", editValue |-> <<"0">>],
     [entityType |-> "tasks", field |-> "TaskID", editValue |-> <<"T9">>] >>

Snapshot == [clients |-> clients, workers |-> workers, tasks |-> tasks]

\* the ids of the rows the grid shows for an entity type
ShownIds(entityType) ==
  CASE entityType = "clients" -> {clients[i].ClientID : i \in 1..Len(clients)}
    [] entityType = "workers" -> {workers[i].WorkerID : i \in 1..Len(workers)}
    [] entityType = "tasks" -> {tasks[i].TaskID : i \in 1..Len(tasks)}

\* the collections the timer callback of saveEdit validates: the `state` of
\* the render that created saveEdit, i.e. the store as it was before the
\* dispatch of this edit
timerState(before, after) == before

\* saveEdit on the cell (entityType, id, field) with the typed text: dispatches
\* the single-record update and schedules the re-validation
SaveEdit(e, id) ==
  LET cell == EditSamples[e]
      value == processedValue(cell.field, cell.editValue)
      after == [clients |-> IF cell.entityType = "clients"
                              THEN UPDATE_CLIENT(clients, id, cell.field, value)
                              ELSE clients,
                workers |-> IF cell.entityType = "workers"
                              THEN UPDATE_WORKER(workers, id, cell.field, value)
                              ELSE workers,
                tasks |-> IF cell.entityType = "tasks"
                            THEN UPDATE_TASK(tasks, id, cell.field, value)
                            ELSE tasks]
  IN /\ id \in ShownIds(cell.entityType)
     /\ Len(timers) < MaxTimers
     /\ edits < MaxEdits
     /\ clients' = after.clients
     /\ workers' = after.workers
     /\ tasks' = after.tasks
     /\ timers' = Append(timers, timerState(Snapshot, after))
     /\ edits' = edits + 1
     /\ lastAction' = Did("saveEdit", TRUE)
     /\ UNCHANGED <<validationErrors, businessRules, ruleSuggestions, uploads, clock, vrun, vheap, vfirst, search, sheet,
                 prioritySettings, priorityProfile>>

\* the setTimeout callback of saveEdit: validateData on the captured state,
\* then SET_VALIDATION_ERRORS; an exception leaves the store as it is
RevalidateAfterEdit ==
  /\ timers # <<>>
  /\ LET captured == Head(timers)
         result == validateData(captured.clients, captured.workers, captured.tasks)
     IN /\ validationErrors' = IF result.threw THEN validationErrors ELSE result.errors
        /\ lastAction' = Did("revalidate", ~result.threw)
  /\ timers' = Tail(timers)
  /\ UNCHANGED <<clients, workers, tasks, businessRules, ruleSuggestions, uploads,
                 clock, edits, vrun, vheap, vfirst, search, sheet,
                 prioritySettings, priorityProfile>>

(***************************************************************************)
(* FileUpload: handleFiles                                                 *)
(***************************************************************************)
\* what parseFile returns for the files the model uploads
FileSamples ==
  << [entity |-> "clients",
      records |-> <<Client("C1", "Acme", 3, <<"T1">>, "object")>>],
     [entity |-> "workers",
      records |-> <<Worker("W1", "Ann", <<"js">>, JsArray(<<1, 2>>), 2, "object")>>],
     [entity |-> "tasks",
      records |-> <<Task("T1", "Build", 2, <<"js">>, <<2>>, 1, "object")>>],
     [entity |-> "clients",
      records |-> <<Client("C1", "Acme", 3, <<"T1">>, "object"),
                    Client("C1", "Bolt", 2, <<>>, "object")>>] >>

\* result.<entity>.filter(r => !existingIds.has(r.<id>)) appended to the existing records
RECURSIVE NotIn(_, _, _)
NotIn(records, idField, existingIds) ==
  IF records = <<>> THEN <<>>
  ELSE (IF Head(records)[idField] \in existingIds THEN <<>> ELSE <<Head(records)>>)
       \o NotIn(Tail(records), idField, existingIds)

Merged(existing, incoming, idField) ==
  existing \o NotIn(incoming, idField, {existing[i][idField] : i \in 1..Len(existing)})

\* processedData after the file has been merged into it
mergeFile(data, file) ==
  CASE file.entity = "clients" ->
         [data EXCEPT !.clients = Merged(data.clients, file.records, "ClientID")]
    [] file.entity = "workers" ->
         [data EXCEPT !.workers = Merged(data.workers, file.records, "WorkerID")]
    [] file.entity = "tasks" ->
         [data EXCEPT !.tasks = Merged(data.tasks, file.records, "TaskID")]

\* handleFiles up to its first await: processedData is copied from the store;
\* at most `limit` calls are in flight
HandleFilesBegin(f, limit) ==
  /\ Len(uploads) < limit
  /\ uploads' = Append(uploads, [processedData |-> Snapshot, file |-> f])
  /\ lastAction' = Did("handleFiles", FALSE)
  /\ UNCHANGED <<clients, workers, tasks, validationErrors, businessRules,
                 ruleSuggestions, timers, clock, edits, vrun, vheap, vfirst, search, sheet,
                 prioritySettings, priorityProfile>>

HandleFilesStart(f) == HandleFilesBegin(f, MaxUploads)

\* handleFiles after parseFile has resolved: merge, UPDATE_CLIENTS,
\* UPDATE_WORKERS, UPDATE_TASKS, then validateData and SET_VALIDATION_ERRORS
HandleFilesFinish(u) ==
  /\ u \in 1..Len(uploads)
  /\ LET processedData == mergeFile(uploads[u].processedData, FileSamples[uploads[u].file])
         result == validateData(processedData.clients, processedData.workers,
                                processedData.tasks)
     IN /\ clients' = processedData.clients
        /\ workers' = processedData.workers
        /\ tasks' = processedData.tasks
        /\ validationErrors' = IF result.threw THEN validationErrors ELSE result.errors
        /\ lastAction' = Did("handleFiles", TRUE)
  /\ uploads' = [i \in 1..(Len(uploads) - 1) |-> IF i < u THEN uploads[i] ELSE uploads[i + 1]]
  /\ UNCHANGED <<businessRules, ruleSuggestions, timers, clock, edits, vrun, vheap, vfirst, search, sheet,
                 prioritySettings, priorityProfile>>

(***************************************************************************)
(* ExportControls                                                          *)
(***************************************************************************)
\* state.validationErrors.some(e => e.type === 'error')
hasErrors == \E k \in 1..Len(validationErrors) : validationErrors[k].type = "error"

\* exportData: returns at once when hasErrors, else downloads both files
ExportData ==
  /\ lastAction' = Did("exportData", ~hasErrors)
  /\ UNCHANGED <<clients, workers, tasks, validationErrors, businessRules,
                 ruleSuggestions, timers, uploads, clock, edits, vrun, vheap, vfirst, search, sheet,
                 prioritySettings, priorityProfile>>

\* exportCSV: returns at once when the collection is empty, else downloads it
ExportCSV(entityType) ==
  /\ lastAction' = DidWith("exportCSV", Len(Snapshot[entityType]) # 0, <<entityType>>)
  /\ UNCHANGED <<clients, workers, tasks, validationErrors, businessRules,
                 ruleSuggestions, timers, uploads, clock, edits, vrun, vheap, vfirst, search, sheet,
                 prioritySettings, priorityProfile>>

InitData ==
  /\ InitStore
  /\ timers = <<>>
  /\ uploads = <<>>
  /\ clock = 0
  /\ edits = 0
  /\ lastAction = Did("init", FALSE)
  /\ vrun = NotRun
  /\ vheap = NoHeap
  /\ vfirst = NotRun
  /\ search = NotSearched
  /\ sheet = NoSheet
  /\ InitPriority

NextData ==
  \/ \E e \in 1..Len(EditSamples) : \E id \in {"", "C1", "W1", "T1", "T9"} : SaveEdit(e, id)
  \/ RevalidateAfterEdit
  \/ \E f \in 1..Len(FileSamples) : HandleFilesStart(f)
  \/ \E u \in 1..MaxUploads : HandleFilesFinish(u)
  \/ ExportData
  \/ \E entityType \in {"clients", "workers", "tasks"} : ExportCSV(entityType)

Spec == InitData /\ [][NextData]_vars

(***************************************************************************)
(* FileUpload: handleFiles calls that overlap                              *)
(***************************************************************************)
\* nothing in the component keeps a second drop or selection from starting
\* handleFiles while an earlier call awaits parseFile
NextUpload ==
  \/ \E f \in 1..Len(FileSamples) : HandleFilesBegin(f, MaxOverlap)
  \/ \E u \in 1..MaxOverlap : HandleFilesFinish(u)

SpecUpload == InitData /\ [][NextUpload]_vars

(***************************************************************************)
(* fileParser: parseClients, parseWorkers, parseTasks                      *)
(*                                                                         *)
(* A row of the sheet is a function from the headers it has a cell for to  *)
(* the values of the cells; a value is a string or a number, given by its  *)
(* text.  An id that is a number is handed to the validator as its text.   *)
(***************************************************************************)
Str(text) == [kind |-> "string", text |-> text]
Num(text) == [kind |-> "number", text |-> text]
Undefined == [kind |-> "undefined", text |-> ""]

\* !value
Falsy(value) ==
  \/ value.kind = "undefined"
  \/ value.kind = "string" /\ value.text = ""
  \/ value.kind = "number" /\ value.text = "0"

\* key.toLowerCase() on the headers of the samples and of the parser
HeaderLower(key) ==
  CASE key \in {"ClientID", "CLIENTID"} -> "clientid"
    [] key = "Client ID" -> "client id"
    [] key \in {"ID", "Id"} -> "id"
    [] key = "ClientName" -> "clientname"
    [] key = "Client Name" -> "client name"
    [] key = "Name" -> "name"
    [] key = "PriorityLevel" -> "prioritylevel"
    [] key = "Priority Level" -> "priority level"
    [] key = "Priority" -> "priority"
    [] key = "WorkerID" -> "workerid"
    [] key = "Worker ID" -> "worker id"
    [] key = "WorkerName" -> "workername"
    [] key = "Worker Name" -> "worker name"
    [] key = "TaskID" -> "taskid"
    [] key = "Task ID" -> "task id"
    [] key = "TaskName" -> "taskname"
    [] key = "Task Name" -> "task name"
    [] key = "Title" -> "title"
    [] key = "Duration" -> "duration"
    [] OTHER -> key

RECURSIVE findValue(_, _)
\* the cell of the first key the row has, by its exact name or else whatever
\* the case of its letters; undefined when it has none of them
findValue(row, keys) ==
  IF keys = <<>> THEN Undefined
  ELSE IF Head(keys) \in DOMAIN row THEN row[Head(keys)]
  ELSE LET same == {k \in DOMAIN row : HeaderLower(k) = HeaderLower(Head(keys))}
       IN IF same # {} THEN row[CHOOSE k \in same : TRUE]
          ELSE findValue(row, Tail(keys))

\* `client_${index + 1}`, `worker_${index + 1}`, `task_${index + 1}` for the
\* row at place n = index + 1
SyntheticId(entity, n) ==
  CASE entity = "client" ->
         <<"client_1", "client_2", "client_3", "client_4">>[n]
    [] entity = "worker" ->
         <<"worker_1", "worker_2", "worker_3", "worker_4">>[n]
    [] entity = "task" ->
         <<"task_1", "task_2", "task_3", "task_4">>[n]

\* findValue(row, idKeys) || `<entity>_${index + 1}`
IdOrSyntheticMut(value, entity, n) == value.text

IdOrSynthetic(value, entity, n) ==
  IF Falsy(value) THEN SyntheticId(entity, n) ELSE value.text

\* findValue(row, nameKeys) || ''
TextOrEmpty(value) == IF Falsy(value) THEN "" ELSE value.text

\* parseInt(findValue(row, keys)) || 1
IntOrOne(value) ==
  IF value.kind # "undefined" /\ IsNumeral(value.text) /\ ParseInt(value.text) # 0
    THEN ParseInt(value.text) ELSE 1

ClientIdKeys == <<"ClientID", "client_id", "Client ID", "ID">>
WorkerIdKeys == <<"WorkerID", "worker_id", "Worker ID", "ID">>
TaskIdKeys == <<"TaskID", "task_id", "Task ID", "ID">>

\* the cells the rows of the samples do not have give [], '' and {}
parseClients(data) ==
  [n \in 1..Len(data) |->
     Client(IdOrSynthetic(findValue(data[n], ClientIdKeys), "client", n),
            TextOrEmpty(findValue(data[n], <<"ClientName", "Client Name", "Name",
                                            "client_name">>)),
            IntOrOne(findValue(data[n], <<"PriorityLevel", "Priority Level", "Priority",
                                         "priority_level">>)),
            <<>>, "object")]

parseWorkers(data) ==
  [n \in 1..Len(data) |->
     Worker(IdOrSynthetic(findValue(data[n], WorkerIdKeys), "worker", n),
            TextOrEmpty(findValue(data[n], <<"WorkerName", "Worker Name", "Name",
                                            "worker_name">>)),
            <<>>, JsArray(<<>>),
            IntOrOne(findValue(data[n], <<"MaxLoadPerPhase", "Max Load Per Phase", "MaxLoad",
                                         "max_load_per_phase">>)),
            "object")]

parseTasks(data) ==
  [n \in 1..Len(data) |->
     Task(IdOrSynthetic(findValue(data[n], TaskIdKeys), "task", n),
          TextOrEmpty(findValue(data[n], <<"TaskName", "Task Name", "Name", "Title",
                                          "task_name">>)),
          IntOrOne(findValue(data[n], <<"Duration", "Time", "Hours", "duration">>)),
          <<>>, <<>>,
          IntOrOne(findValue(data[n], <<"MaxConcurrent", "Max Concurrent", "Concurrent",
                                       "max_concurrent">>)),
          "object")]

\* the rows of the sheets the model parses
RowSamples ==
  [clients |->
     { [ClientID |-> Str("C1"), ClientName |-> Str("Acme"), PriorityLevel |-> Num("3")],
       [ID |-> Num("7"), Name |-> Str("Bolt")],
       [CLIENTID |-> Str(" "), ClientName |-> Str("Cato")],
       [ClientName |-> Str("Dora"), Priority |-> Str("high")],
       [ClientID |-> Num("0"), PriorityLevel |-> Num("0")] },
   workers |->
     { [WorkerID |-> Str("W1"), WorkerName |-> Str("Ann")],
       [Name |-> Str("Cy")],
       [Id |-> Str("W1"), WorkerName |-> Str("")] },
   tasks |->
     { [TaskID |-> Str("T1"), TaskName |-> Str("Build"), Duration |-> Num("2")],
       [Title |-> Str("Ship")],
       [ID |-> Num("0"), Duration |-> Str("x")] }]

\* a sheet of one entity type with at least one row
InitParse ==
  /\ InitStore
  /\ timers = <<>>
  /\ uploads = <<>>
  /\ clock = 0
  /\ edits = 0
  /\ lastAction = Did("init", FALSE)
  /\ vrun = NotRun
  /\ vheap = NoHeap
  /\ vfirst = NotRun
  /\ search = NotSearched
  /\ InitPriority
  /\ \E entity \in DOMAIN RowSamples :
       \E rows \in SeqsUpTo(RowSamples[entity], MaxRecs) \ {<<>>} :
         sheet = [entity |-> entity, rows |-> rows, parsed |-> FALSE]

\* parseFile on the sheet: the records of its entity type
ParseSheet ==
  /\ ~sheet.parsed
  /\ clients' = IF sheet.entity = "clients" THEN parseClients(sheet.rows) ELSE clients
  /\ workers' = IF sheet.entity = "workers" THEN parseWorkers(sheet.rows) ELSE workers
  /\ tasks' = IF sheet.entity = "tasks" THEN parseTasks(sheet.rows) ELSE tasks
  /\ sheet' = [sheet EXCEPT !.parsed = TRUE]
  /\ lastAction' = Did("parseFile", TRUE)
  /\ UNCHANGED <<validationErrors, businessRules, ruleSuggestions, timers, uploads,
                 clock, edits, vrun, vheap, vfirst, search, prioritySettings,
                 priorityProfile>>

NextParse ==
  \/ ParseSheet
  \/ sheet.parsed /\ RunValidateData

SpecParse == InitParse /\ [][NextParse]_vars

(***************************************************************************)
(* PriorityControls                                                        *)
(***************************************************************************)
\* priorityProfiles: the settings of every predefined profile
priorityProfiles ==
  [balanced |->
     [priorityLevel |-> 25, taskFulfillment |-> 20, fairnessConstraints |-> 15,
      skillMatching |-> 15, phaseOptimization |-> 10, workloadBalance |-> 10,
      clientSatisfaction |-> 3, resourceUtilization |-> 2],
   clientFirst |->
     [priorityLevel |-> 35, taskFulfillment |-> 30, fairnessConstraints |-> 5,
      skillMatching |-> 10, phaseOptimization |-> 5, workloadBalance |-> 5,
      clientSatisfaction |-> 8, resourceUtilization |-> 2],
   efficiency |->
     [priorityLevel |-> 10, taskFulfillment |-> 15, fairnessConstraints |-> 10,
      skillMatching |-> 25, phaseOptimization |-> 20, workloadBalance |-> 5,
      clientSatisfaction |-> 5, resourceUtilization |-> 10],
   fairness |->
     [priorityLevel |-> 15, taskFulfillment |-> 20, fairnessConstraints |-> 30,
      skillMatching |-> 10, phaseOptimization |-> 10, workloadBalance |-> 10,
      clientSatisfaction |-> 3, resourceUtilization |-> 2]]

\* the sliders the model moves and the values it moves them to (min 0, max 50)
SliderSamples == {"priorityLevel", "clientSatisfaction", "resourceUtilization"}
SliderValues == {0, 25, 50}

\* the values the profile select can hand to handleProfileChange
ProfileKeySamples == {"balanced", "clientFirst", "efficiency", "fairness", "custom"}

\* setPriorityProfile('custom') after a slider change
ProfileAfterSliderMut(profile) == profile

ProfileAfterSlider(profile) == "custom"

\* handlePriorityChange: SET_PRIORITY_SETTINGS with the one weight replaced,
\* then SET_PRIORITY_PROFILE
HandlePriorityChange(key, value) ==
  /\ prioritySettings' = [prioritySettings EXCEPT ![key] = value]
  /\ priorityProfile' = ProfileAfterSlider(priorityProfile)
  /\ lastAction' = DidWith("handlePriorityChange", TRUE, <<key>>)
  /\ UNCHANGED <<clients, workers, tasks, validationErrors, businessRules,
                 ruleSuggestions, timers, uploads, clock, edits, vrun, vheap, vfirst,
                 search, sheet>>

\* handleProfileChange: for a key of priorityProfiles, SET_PRIORITY_SETTINGS
\* with the settings of the profile, then SET_PRIORITY_PROFILE; nothing otherwise
HandleProfileChange(profileKey) ==
  /\ IF profileKey \in DOMAIN priorityProfiles
       THEN /\ prioritySettings' = priorityProfiles[profileKey]
            /\ priorityProfile' = profileKey
       ELSE UNCHANGED <<prioritySettings, priorityProfile>>
  /\ lastAction' = DidWith("handleProfileChange", profileKey \in DOMAIN priorityProfiles,
                           <<profileKey>>)
  /\ UNCHANGED <<clients, workers, tasks, validationErrors, businessRules,
                 ruleSuggestions, timers, uploads, clock, edits, vrun, vheap, vfirst,
                 search, sheet>>

\* resetToDefaults: handleProfileChange('balanced')
ResetToDefaults ==
  /\ prioritySettings' = priorityProfiles["balanced"]
  /\ priorityProfile' = "balanced"
  /\ lastAction' = Did("resetToDefaults", TRUE)
  /\ UNCHANGED <<clients, workers, tasks, validationErrors, businessRules,
                 ruleSuggestions, timers, uploads, clock, edits, vrun, vheap, vfirst,
                 search, sheet>>

NextPriority ==
  \/ \E key \in SliderSamples : \E value \in SliderValues : HandlePriorityChange(key, value)
  \/ \E profileKey \in ProfileKeySamples : HandleProfileChange(profileKey)
  \/ ResetToDefaults

SpecPriority == InitData /\ [][NextPriority]_vars

(***************************************************************************)
(* nlpSearch: text                                                         *)
(*                                                                         *)
(* A text is the sequence of its whitespace-separated words; a word is a   *)
(* string of the vocabulary below, and Chars gives its characters, so that *)
(* String.prototype.includes and the character classes of the regular      *)
(* expressions are computed on characters.                                 *)
(***************************************************************************)
\* the characters of the words of the samples
Chars(w) ==
  CASE w = "" -> <<>>
    [] w = "a" -> <<"a">>
    [] w = "tasks" -> <<"t", "a", "s", "k", "s">>
    [] w = "having" -> <<"h", "a", "v", "i", "n", "g">>
    [] w = "duration" -> <<"d", "u", "r", "a", "t", "i", "o", "n">>
    [] w = "of" -> <<"o", "f">>
    [] w = "more" -> <<"m", "o", "r", "e">>
    [] w = "less" -> <<"l", "e", "s", "s">>
    [] w = "than" -> <<"t", "h", "a", "n">>
    [] w = "priority" -> <<"p", "r", "i", "o", "r", "i", "t", "y">>
    [] w = "phase" -> <<"p", "h", "a", "s", "e">>
    [] w = "phases" -> <<"p", "h", "a", "s", "e", "s">>
    [] w = "skills" -> <<"s", "k", "i", "l", "l", "s">>
    [] w = "with" -> <<"w", "i", "t", "h">>
    [] w = "name" -> <<"n", "a", "m", "e">>
    [] w = "containing" -> <<"c", "o", "n", "t", "a", "i", "n", "i", "n", "g">>
    [] w = "workers" -> <<"w", "o", "r", "k", "e", "r", "s">>
    [] w = "in" -> <<"i", "n">>
    [] w = "at" -> <<"a", "t">>
    [] w = "location" -> <<"l", "o", "c", "a", "t", "i", "o", "n">>
    [] w = "skill" -> <<"s", "k", "i", "l", "l">>
    [] w = "names" -> <<"n", "a", "m", "e", "s">>
    [] w = "london" -> <<"l", "o", "n", "d", "o", "n">>
    [] w = "paris" -> <<"p", "a", "r", "i", "s">>
    [] w = "build" -> <<"b", "u", "i", "l", "d">>
    [] w = "ship" -> <<"s", "h", "i", "p">>
    [] w = "ann" -> <<"a", "n", "n">>
    [] w = "cy" -> <<"c", "y">>
    [] w = "acme" -> <<"a", "c", "m", "e">>
    [] w = "js" -> <<"j", "s">>
    [] w = "py" -> <<"p", "y">>
    [] w = "js,py" -> <<"j", "s", ",", "p", "y">>
    [] w = "t1" -> <<"t", "1">>
    [] w = "t2" -> <<"t", "2">>
    [] w = "t3" -> <<"t", "3">>
    [] w = "w1" -> <<"w", "1">>
    [] w = "w2" -> <<"w", "2">>
    [] w = "c1" -> <<"c", "1">>
    [] w = "c2" -> <<"c", "2">>
    [] w = "2" -> <<"2">>
    [] w = "3" -> <<"3">>
    [] w = "5" -> <<"5">>
    [] w = "2,3" -> <<"2", ",", "3">>
    [] w = ">" -> <<">">>
    [] w = ">=" -> <<">", "=">>
    [] w = "=" -> <<"=">>
    [] w = "Tasks" -> <<"T", "a", "s", "k", "s">>
    [] w = "T12" -> <<"T", "1", "2">>
    [] w = "T14" -> <<"T", "1", "4">>
    [] w = "and" -> <<"a", "n", "d">>
    [] w = "should" -> <<"s", "h", "o", "u", "l", "d">>
    [] w = "always" -> <<"a", "l", "w", "a", "y", "s">>
    [] w = "run" -> <<"r", "u", "n">>
    [] w = "together" -> <<"t", "o", "g", "e", "t", "h", "e", "r">>
    [] w = "limit" -> <<"l", "i", "m", "i", "t">>
    [] w = "sales" -> <<"s", "a", "l", "e", "s">>
    [] w = "SALES" -> <<"S", "A", "L", "E", "S">>
    [] w = "to" -> <<"t", "o">>
    [] w = "maximum" -> <<"m", "a", "x", "i", "m", "u", "m">>
    [] w = "restrict" -> <<"r", "e", "s", "t", "r", "i", "c", "t">>
    [] w = "t5" -> <<"t", "5">>
    [] w = "T5" -> <<"T", "5">>
    [] w = "1-3" -> <<"1", "-", "3">>
    [] w = "only" -> <<"o", "n", "l", "y">>
    [] w = "2,4" -> <<"2", ",", "4">>
    [] w = "nothing" -> <<"n", "o", "t", "h", "i", "n", "g">>
    [] w = "see" -> <<"s", "e", "e">>
    [] w = "altogether" -> <<"a", "l", "t", "o", "g", "e", "t", "h", "e", "r">>
    [] w = "T12,T14" -> <<"T", "1", "2", ",", "T", "1", "4">>
    [] w = "the" -> <<"t", "h", "e">>
    [] w = "same" -> <<"s", "a", "m", "e">>
    [] w = "time" -> <<"t", "i", "m", "e">>
    [] w = "Co-Run" -> <<"C", "o", "-", "R", "u", "n">>
    [] w = "co-run" -> <<"c", "o", "-", "r", "u", "n">>
    [] w = "part3" -> <<"p", "a", "r", "t", "3">>
    [] w = "now" -> <<"n", "o", "w">>
    [] w = "Phase" -> <<"P", "h", "a", "s", "e">>
    [] w = "2," -> <<"2", ",">>
    [] w = "4" -> <<"4">>
    [] w = "load" -> <<"l", "o", "a", "d">>
    [] w = "group" -> <<"g", "r", "o", "u", "p">>
    [] w = "team" -> <<"t", "e", "a", "m">>
    [] w = "12" -> <<"1", "2">>

\* String.prototype.toLowerCase on the words of the samples
LowerCase(w) ==
  CASE w = "Duration" -> "duration" [] w = "London" -> "london" [] w = "Paris" -> "paris"
    [] w = "Build" -> "build" [] w = "Ship" -> "ship" [] w = "Ann" -> "ann" [] w = "Cy" -> "cy"
    [] w = "Acme" -> "acme" [] w = "T1" -> "t1" [] w = "T2" -> "t2" [] w = "T3" -> "t3"
    [] w = "W1" -> "w1" [] w = "W2" -> "w2" [] w = "C1" -> "c1" [] w = "C2" -> "c2"
    [] w = "JS" -> "js"
    [] OTHER -> w

Digits == {"0", "1", "2", "3", "4", "5", "6", "7", "8", "9"}

\* [a-zA-Z] on lower-case text
Letters ==
  {"a", "b", "c", "d", "e", "f", "g", "h", "i", "j", "k", "l", "m",
   "n", "o", "p", "q", "r", "s", "t", "u", "v", "w", "x", "y", "z"}

DigitValue(c) ==
  CASE c = "0" -> 0 [] c = "1" -> 1 [] c = "2" -> 2 [] c = "3" -> 3 [] c = "4" -> 4
    [] c = "5" -> 5 [] c = "6" -> 6 [] c = "7" -> 7 [] c = "8" -> 8 [] c = "9" -> 9

\* the characters of words.join(' ')
RECURSIVE JoinChars(_)
JoinChars(words) ==
  IF words = <<>> THEN <<>>
  ELSE IF Len(words) = 1 THEN Chars(words[1])
  ELSE Chars(Head(words)) \o <<" ">> \o JoinChars(Tail(words))

\* hay.includes(needle)
IsSubstring(needle, hay) ==
  \E i \in 0..(Len(hay) - Len(needle)) : SubSeq(hay, i + 1, i + Len(needle)) = needle

EndsWith(chars, suffix) ==
  /\ Len(suffix) <= Len(chars)
  /\ SubSeq(chars, Len(chars) - Len(suffix) + 1, Len(chars)) = suffix

\* the longest prefix of chars made of characters of the class
RECURSIVE LeadingRun(_, _)
LeadingRun(chars, class) ==
  IF chars = <<>> \/ Head(chars) \notin class THEN <<>>
  ELSE <<Head(chars)>> \o LeadingRun(Tail(chars), class)

\* parseInt of a run of digits
RECURSIVE ParseDigitRun(_, _)
ParseDigitRun(digits, acc) ==
  IF digits = <<>> THEN acc
  ELSE ParseDigitRun(Tail(digits), 10 * acc + DigitValue(Head(digits)))

\* chars.split(',')
RECURSIVE SplitOnComma(_, _)
SplitOnComma(chars, piece) ==
  IF chars = <<>> THEN <<piece>>
  ELSE IF Head(chars) = "," THEN <<piece>> \o SplitOnComma(Tail(chars), <<>>)
  ELSE SplitOnComma(Tail(chars), Append(piece, Head(chars)))

\* String.prototype.trim
RECURSIVE Trim(_)
Trim(chars) ==
  IF chars # <<>> /\ Head(chars) = " " THEN Trim(Tail(chars))
  ELSE IF chars # <<>> /\ chars[Len(chars)] = " " THEN Trim(SubSeq(chars, 1, Len(chars) - 1))
  ELSE chars

\* query.toLowerCase().split(/\s+/): a query that starts or ends with
\* whitespace has the empty string as its first or last piece
QueryTokens(query) == [i \in 1..Len(query) |-> LowerCase(query[i])]

(***************************************************************************)
(* BusinessRulesEditor: generateRuleSuggestions                            *)
(*                                                                         *)
(* The input is the sequence of its words, separated by one blank; the     *)
(* keyword tests and the regular expressions are computed on the           *)
(* characters of the whole input.                                          *)
(***************************************************************************)
TextSamples ==
  << <<"Tasks", "T12", "and", "T14", "should", "always", "run", "together">>,
     <<"limit", "sales", "workers", "to", "3", "maximum">>,
     <<"restrict", "t5", "to", "phase", "1-3", "only">>,
     <<"T12", "T14", "together", "in", "phase", "2,4", "only">>,
     <<"nothing", "to", "see">>,
     <<"run", "T12", "altogether">>,
     <<"T12,T14", "at", "the", "same", "time">>,
     <<"Co-Run", "t5", "part3">>,
     <<"T12", "and", "T14", "now">>,
     <<"Phase", "2,", "4", "only", "T14">> >>

UpperLetters ==
  <<"A", "B", "C", "D", "E", "F", "G", "H", "I", "J", "K", "L", "M",
    "N", "O", "P", "Q", "R", "S", "T", "U", "V", "W", "X", "Y", "Z">>

LowerLetters ==
  <<"a", "b", "c", "d", "e", "f", "g", "h", "i", "j", "k", "l", "m",
    "n", "o", "p", "q", "r", "s", "t", "u", "v", "w", "x", "y", "z">>

\* String.prototype.toLowerCase, character by character
ToLowerCase(chars) ==
  [i \in 1..Len(chars) |->
     IF \E k \in 1..26 : UpperLetters[k] = chars[i]
       THEN LowerLetters[CHOOSE k \in 1..26 : UpperLetters[k] = chars[i]]
       ELSE chars[i]]

\* String.prototype.toUpperCase, character by character
ToUpperCase(chars) ==
  [i \in 1..Len(chars) |->
     IF \E k \in 1..26 : LowerLetters[k] = chars[i]
       THEN UpperLetters[CHOOSE k \in 1..26 : LowerLetters[k] = chars[i]]
       ELSE chars[i]]

\* \w
WordChars == Range(UpperLetters) \cup Range(LowerLetters) \cup Digits \cup {"_"}

\* the strings the matches of the samples are made of
Spelled == {"T12", "T14", "t5", "T5", "t3", "sales", "SALES", "3"}

\* the string with these characters
Word(chars) == CHOOSE w \in Spelled : Chars(w) = chars

StartsWith(chars, prefix) ==
  Len(prefix) <= Len(chars) /\ SubSeq(chars, 1, Len(prefix)) = prefix

\* chars.slice(n)
Slice(chars, n) == SubSeq(chars, n + 1, Len(chars))

\* inputLower.includes(keyword), the keyword given by its words
includes(text, keyword) == IsSubstring(JoinChars(keyword), ToLowerCase(JoinChars(text)))

\* all matches of /t\d+/gi, left to right
RECURSIVE MatchTaskIds(_)
MatchTaskIds(chars) ==
  IF chars = <<>> THEN <<>>
  ELSE LET digits == LeadingRun(Tail(chars), Digits)
       IN IF Head(chars) \in {"t", "T"} /\ digits # <<>>
            THEN <<Word(<<Head(chars)>> \o digits)>>
                 \o MatchTaskIds(Slice(chars, 1 + Len(digits)))
            ELSE MatchTaskIds(Tail(chars))

\* input.match(/t\d+/gi); with /t\d+/i the first of them
SelectTaskTokens(text) == MatchTaskIds(JoinChars(text))

\* input.match(/(\d+)/): the first run of digits, <<>> without one
RECURSIVE FirstDigits(_)
FirstDigits(chars) ==
  IF chars = <<>> THEN <<>>
  ELSE IF Head(chars) \in Digits THEN LeadingRun(chars, Digits)
  ELSE FirstDigits(Tail(chars))

\* /(\w+)\s+(?:workers|group|team)/i tried at one place: <<capture>> or <<>>
GroupAt(chars) ==
  LET run == LeadingRun(chars, WordChars)
      blanks == LeadingRun(Slice(chars, Len(run)), {" "})
      rest == ToLowerCase(Slice(chars, Len(run) + Len(blanks)))
  IN IF /\ run # <<>>
        /\ blanks # <<>>
        /\ \E k \in {"workers", "group", "team"} : StartsWith(rest, Chars(k))
       THEN <<run>> ELSE <<>>

\* the places where the group pattern matches
GroupPositions(chars) == {p \in 0..(Len(chars) - 1) : GroupAt(Slice(chars, p)) # <<>>}

\* (?:[-,]\s*\d+)* from the start of chars
RECURSIVE PhaseListTail(_)
PhaseListTail(chars) ==
  IF chars = <<>> \/ Head(chars) \notin {"-", ","} THEN <<>>
  ELSE LET blanks == LeadingRun(Tail(chars), {" "})
           digits == LeadingRun(Slice(chars, 1 + Len(blanks)), Digits)
       IN IF digits = <<>> THEN <<>>
          ELSE <<Head(chars)>> \o blanks \o digits
               \o PhaseListTail(Slice(chars, 1 + Len(blanks) + Len(digits)))

\* /phase\s*(\d+(?:[-,]\s*\d+)*)/i tried at one place: <<capture>> or <<>>
PhaseAt(chars) ==
  LET blanks == LeadingRun(Slice(chars, 5), {" "})
      list == Slice(chars, 5 + Len(blanks))
      digits == LeadingRun(list, Digits)
  IN IF StartsWith(ToLowerCase(chars), Chars("phase")) /\ digits # <<>>
       THEN <<digits \o PhaseListTail(Slice(list, Len(digits)))>> ELSE <<>>

\* the places where the phase pattern matches
PhasePositions(chars) == {p \in 0..(Len(chars) - 1) : PhaseAt(Slice(chars, p)) # <<>>}

\* capture.split(/[-,]/)
RECURSIVE SplitPhases(_, _)
SplitPhases(chars, piece) ==
  IF chars = <<>> THEN <<piece>>
  ELSE IF Head(chars) \in {"-", ","} THEN <<piece>> \o SplitPhases(Tail(chars), <<>>)
  ELSE SplitPhases(Tail(chars), Append(piece, Head(chars)))

\* pieces.map(p => parseInt(p.trim())).filter(n => !isNaN(n))
ParsePhases(pieces) ==
  LET numbers == SelectSeq(pieces, LAMBDA p : LeadingRun(Trim(p), Digits) # <<>>)
  IN [i \in 1..Len(numbers) |-> ParseDigitRun(LeadingRun(Trim(numbers[i]), Digits), 0)]

\* taskMatches && taskMatches.length >= 2
EnoughTaskIdsMut(taskMatches) == Len(taskMatches) >= 1

EnoughTaskIds(taskMatches) == Len(taskMatches) >= 2

coRunSuggestion(text, now) ==
  IF /\ \/ includes(text, <<"together">>)
        \/ includes(text, <<"co-run">>)
        \/ includes(text, <<"same", "time">>)
     /\ EnoughTaskIds(SelectTaskTokens(text))
    THEN << [id |-> <<"suggestion", now, 1>>,
             type |-> "coRun",
             title |-> "Co-Run Tasks Rule",
             description |-> <<"Tasks ", SelectTaskTokens(text), " should run together">>,
             confidence |-> 85,
             parameters |-> [tasks |-> SelectTaskTokens(text)]] >>
    ELSE <<>>

loadLimitSuggestion(text, now) ==
  IF /\ \/ includes(text, <<"load">>)
        \/ includes(text, <<"limit">>)
        \/ includes(text, <<"maximum">>)
     /\ FirstDigits(JoinChars(text)) # <<>>
     /\ GroupPositions(JoinChars(text)) # {}
    THEN LET number == FirstDigits(JoinChars(text))
             group == GroupAt(Slice(JoinChars(text), Min(GroupPositions(JoinChars(text)))))[1]
         IN << [id |-> <<"suggestion", now, 2>>,
                type |-> "loadLimit",
                title |-> "Load Limit Rule",
                description |-> <<"Limit ", Word(group), " group to ", Word(number),
                                  " slots per phase">>,
                confidence |-> 78,
                parameters |-> [workerGroup |-> Word(ToUpperCase(group)),
                                maxSlotsPerPhase |-> ParseDigitRun(number, 0)]] >>
    ELSE <<>>

phaseWindowSuggestion(text, now) ==
  IF /\ includes(text, <<"phase">>)
     /\ (includes(text, <<"only">>) \/ includes(text, <<"restrict">>))
     /\ SelectTaskTokens(text) # <<>>
     /\ PhasePositions(JoinChars(text)) # {}
    THEN LET taskMatch == Head(SelectTaskTokens(text))
             capture == PhaseAt(Slice(JoinChars(text), Min(PhasePositions(JoinChars(text)))))[1]
             phases == ParsePhases(SplitPhases(capture, <<>>))
         IN << [id |-> <<"suggestion", now, 3>>,
                type |-> "phaseWindow",
                title |-> "Phase Window Rule",
                description |-> <<"Restrict ", taskMatch, " to phases ", phases>>,
                confidence |-> 82,
                parameters |-> [taskId |-> Word(ToUpperCase(Chars(taskMatch))),
                                allowedPhases |-> phases]] >>
    ELSE <<>>

generateRuleSuggestions(text, now) ==
  coRunSuggestion(text, now) \o loadLimitSuggestion(text, now)
  \o phaseWindowSuggestion(text, now)

\* what generateRuleSuggestions returns for every sample text at every time
Suggested ==
  [t \in 1..Len(TextSamples), now \in 0..MaxClock |->
     generateRuleSuggestions(TextSamples[t], now)]


(***************************************************************************)
(* dataReducer: rule suggestions                                           *)
(***************************************************************************)
\* state.ruleSuggestions.filter(s => s.id !== id)
RECURSIVE WithoutSuggestion(_, _)
WithoutSuggestion(suggestions, id) ==
  IF suggestions = <<>> THEN <<>>
  ELSE (IF Head(suggestions).id # id THEN <<Head(suggestions)>> ELSE <<>>)
       \o WithoutSuggestion(Tail(suggestions), id)

\* lines 125-134: the rule built from an accepted suggestion
newRuleMut(suggestion, now) ==
  [id |-> <<"rule", now>>,
   name |-> suggestion.title,
   description |-> suggestion.description,
   type |-> suggestion.type,
   parameters |-> suggestion.parameters,
   priority |-> suggestion.confidence,
   active |-> TRUE,
   createdAt |-> <<"iso", now>>]

newRule(suggestion, now) ==
  [id |-> <<"rule", now>>,
   name |-> suggestion.title,
   description |-> suggestion.description,
   type |-> suggestion.type,
   parameters |-> suggestion.parameters,
   priority |-> 50,
   active |-> TRUE,
   createdAt |-> <<"iso", now>>]

\* state.ruleSuggestions.find(s => s.id === id) finds something
Pending(id) == \E i \in 1..Len(ruleSuggestions) : ruleSuggestions[i].id = id

\* the first suggestion with this id
FindSuggestion(id) ==
  ruleSuggestions[Min({i \in 1..Len(ruleSuggestions) : ruleSuggestions[i].id = id})]

\* convertNaturalLanguageToRule: SET_RULE_SUGGESTIONS with what the text yields
ConvertNaturalLanguageToRule(t) ==
  /\ ruleSuggestions' = Suggested[t, clock]
  /\ lastAction' = DidWith("SET_RULE_SUGGESTIONS", TRUE, <<t>>)
  /\ UNCHANGED <<clients, workers, tasks, validationErrors, businessRules,
                 timers, uploads, clock, edits, vrun, vheap, vfirst, search, sheet,
                 prioritySettings, priorityProfile>>

\* lines 123-141: the rules after ACCEPT_RULE_SUGGESTION; `return state` when
\* the suggestion is not found
RulesAfterAcceptMut(id) ==
  Append(businessRules,
         newRule(IF Pending(id) THEN FindSuggestion(id)
                 ELSE [title |-> "", description |-> "", type |-> "custom",
                       parameters |-> <<>>],
                 clock))

RulesAfterAccept(id) ==
  IF Pending(id) THEN Append(businessRules, newRule(FindSuggestion(id), clock))
  ELSE businessRules

\* case 'ACCEPT_RULE_SUGGESTION'
AcceptRuleSuggestion(id) ==
  /\ Pending(id) => Len(businessRules) < MaxRules
  /\ businessRules' = RulesAfterAccept(id)
  /\ ruleSuggestions' = WithoutSuggestion(ruleSuggestions, id)
  /\ lastAction' = DidWith("ACCEPT_RULE_SUGGESTION", Pending(id), id)
  /\ UNCHANGED <<clients, workers, tasks, validationErrors,
                 timers, uploads, clock, edits, vrun, vheap, vfirst, search, sheet,
                 prioritySettings, priorityProfile>>

\* the rule dialog as the model fills it in: a named co-run rule
FormSamples ==
  << [name |-> "Manual", description |-> "", type |-> "coRun",
      parameters |-> [tasks |-> <<"T12", "T14">>], priority |-> 50, active |-> TRUE] >>

\* handleSave with no rule being edited: ADD_BUSINESS_RULE of a rule with the
\* id rule_<Date.now()>
HandleSave(form) ==
  /\ Len(businessRules) < MaxRules
  /\ businessRules' = Append(businessRules,
                              [id |-> <<"rule", clock>>,
                               name |-> FormSamples[form].name,
                               description |-> FormSamples[form].description,
                               type |-> FormSamples[form].type,
                               parameters |-> FormSamples[form].parameters,
                               priority |-> FormSamples[form].priority,
                               active |-> FormSamples[form].active,
                               createdAt |-> <<"iso", clock>>])
  /\ lastAction' = DidWith("ADD_BUSINESS_RULE", TRUE, <<form>>)
  /\ UNCHANGED <<clients, workers, tasks, validationErrors, ruleSuggestions,
                 timers, uploads, clock, edits, vrun, vheap, vfirst, search, sheet,
                 prioritySettings, priorityProfile>>

\* case 'DISMISS_RULE_SUGGESTION'
DismissRuleSuggestion(id) ==
  /\ ruleSuggestions' = WithoutSuggestion(ruleSuggestions, id)
  /\ lastAction' = DidWith("DISMISS_RULE_SUGGESTION", Pending(id), id)
  /\ UNCHANGED <<clients, workers, tasks, validationErrors, businessRules,
                 timers, uploads, clock, edits, vrun, vheap, vfirst, search, sheet,
                 prioritySettings, priorityProfile>>

\* time passes
Tick ==
  /\ clock < MaxClock
  /\ clock' = clock + 1
  /\ lastAction' = Did("tick", TRUE)
  /\ UNCHANGED <<clients, workers, tasks, validationErrors, businessRules,
                 ruleSuggestions, timers, uploads, edits, vrun, vheap, vfirst, search, sheet,
                 prioritySettings, priorityProfile>>

SuggestionIds == {<<"suggestion", c, k>> : c \in 0..MaxClock, k \in 1..3}

NextRules ==
  \/ \E t \in 1..Len(TextSamples) : ConvertNaturalLanguageToRule(t)
  \/ \E id \in SuggestionIds : AcceptRuleSuggestion(id)
  \/ \E id \in SuggestionIds : DismissRuleSuggestion(id)
  \/ \E form \in 1..Len(FormSamples) : HandleSave(form)
  \/ Tick

SpecRules == InitData /\ [][NextRules]_vars

(***************************************************************************)
(* nlpSearch: extractSearchCriteria                                        *)
(*                                                                         *)
(* The regular expressions are matched on the words of the query: a        *)
(* literal such as `duration` matches the end of a word, `\s*` and `\s+`   *)
(* the gap to the next word.  An optional criterion is <<>> when absent    *)
(* and <<value>> when present.                                             *)
(***************************************************************************)
\* the alternatives (>|<|>=|<=|=|more than|less than|equal to|equals), word by word
DurationOperators ==
  { <<">">>, <<"<">>, <<">=">>, <<"<=">>, <<"=">>,
    <<"more", "than">>, <<"less", "than">>, <<"equal", "to">>, <<"equals">> }

\* the alternatives (>|<|>=|<=|=|level)
PriorityOperators == { <<">">>, <<"<">>, <<">=">>, <<"<=">>, <<"=">>, <<"level">> }

\* keyword\s*(alternative)\s*(\d+) matches with keyword ending word i
ComparisonAt(tokens, keyword, alternatives, i) ==
  {a \in alternatives :
     /\ EndsWith(Chars(tokens[i]), Chars(keyword))
     /\ i + Len(a) + 1 <= Len(tokens)
     /\ SubSeq(tokens, i + 1, i + Len(a)) = a
     /\ LeadingRun(Chars(tokens[i + Len(a) + 1]), Digits) # <<>>}

ComparisonPositions(tokens, keyword, alternatives) ==
  {i \in 1..Len(tokens) : ComparisonAt(tokens, keyword, alternatives, i) # {}}

\* the operator and the number of the leftmost match
ComparisonMatch(tokens, keyword, alternatives) ==
  LET i == Min(ComparisonPositions(tokens, keyword, alternatives))
      a == CHOOSE x \in ComparisonAt(tokens, keyword, alternatives, i) : TRUE
  IN [operator |-> a,
      value |-> ParseDigitRun(LeadingRun(Chars(tokens[i + Len(a) + 1]), Digits), 0)]

\* lines 80-83
NormalizedDurationOperator(operator) ==
  CASE operator = <<"more", "than">> -> ">"
    [] operator = <<"less", "than">> -> "<"
    [] operator \in {<<"equal", "to">>, <<"equals">>} -> "="
    [] OTHER -> operator[1]

\* lines 78-89
durationCriterion(tokens) ==
  IF ComparisonPositions(tokens, "duration", DurationOperators) = {} THEN <<>>
  ELSE LET m == ComparisonMatch(tokens, "duration", DurationOperators)
       IN <<[operator |-> NormalizedDurationOperator(m.operator), value |-> m.value]>>

\* lines 92-98
priorityCriterion(tokens) ==
  IF ComparisonPositions(tokens, "priority", PriorityOperators) = {} THEN <<>>
  ELSE LET m == ComparisonMatch(tokens, "priority", PriorityOperators)
       IN <<[operator |-> IF m.operator = <<"level">> THEN "=" ELSE m.operator[1],
             value |-> m.value]>>

\* the longest prefix of chars matching \d+(?:,\d+)*
RECURSIVE NumberListPrefix(_)
NumberListPrefix(chars) ==
  LET first == LeadingRun(chars, Digits)
      rest == SubSeq(chars, Len(first) + 1, Len(chars))
  IN IF first = <<>> THEN <<>>
     ELSE IF /\ Len(rest) >= 2
             /\ rest[1] = ","
             /\ rest[2] \in Digits
            THEN first \o <<",">> \o NumberListPrefix(Tail(rest))
     ELSE first

\* positions of a word ending in phase or phases that a number follows
PhaseWordPositions(tokens) ==
  {i \in 1..(Len(tokens) - 1) :
     /\ \/ EndsWith(Chars(tokens[i]), Chars("phase"))
        \/ EndsWith(Chars(tokens[i]), Chars("phases"))
     /\ LeadingRun(Chars(tokens[i + 1]), Digits) # <<>>}

\* phaseMatch[1] || phaseMatch[2]: the first alternative, phase\s*(\d+),
\* captures one number; the second, phases?\s*(\d+(?:,\s*\d+)*), is reached
\* only after the word phases and captures the list
PhaseCapture(tokens) ==
  LET i == Min(PhaseWordPositions(tokens))
  IN IF EndsWith(Chars(tokens[i]), Chars("phase"))
       THEN LeadingRun(Chars(tokens[i + 1]), Digits)
       ELSE NumberListPrefix(Chars(tokens[i + 1]))

\* lines 101-108
phaseCriterion(tokens) ==
  IF PhaseWordPositions(tokens) = {} THEN <<>>
  ELSE LET pieces == SplitOnComma(PhaseCapture(tokens), <<>>)
       IN <<[k \in 1..Len(pieces) |-> ParseDigitRun(Trim(pieces[k]), 0)]>>

\* the text after word i, up to the first character outside the class
CaptureAfter(tokens, i, class) ==
  LeadingRun(JoinChars(SubSeq(tokens, i + 1, Len(tokens))), class)

\* positions i of keyword(s)\s+(verb)\s+(class+): keyword ends word i, the
\* verb is word i + 1, the capture starts at word i + 2
PhrasePositions(tokens, keywords, verbs, class) ==
  {i \in 1..(Len(tokens) - 2) :
     /\ \E k \in keywords : EndsWith(Chars(tokens[i]), Chars(k))
     /\ tokens[i + 1] \in verbs
     /\ CaptureAfter(tokens, i + 1, class) # <<>>}

\* lines 111-114
skillsCriterion(tokens) ==
  LET class == Letters \cup {" ", ","}
      found == PhrasePositions(tokens, {"skill", "skills"}, {"include", "having", "with"}, class)
  IN IF found = {} THEN <<>>
     ELSE LET pieces == SplitOnComma(CaptureAfter(tokens, Min(found) + 1, class), <<>>)
          IN <<[k \in 1..Len(pieces) |-> Trim(pieces[k])]>>

\* positions of (?:location|in|at)\s+([a-zA-Z\s]+)
LocationPositions(tokens) ==
  {i \in 1..(Len(tokens) - 1) :
     /\ \E k \in {"location", "in", "at"} : EndsWith(Chars(tokens[i]), Chars(k))
     /\ CaptureAfter(tokens, i, Letters \cup {" "}) # <<>>}

\* lines 117-120
locationCriterion(tokens) ==
  IF LocationPositions(tokens) = {} THEN <<>>
  ELSE <<Trim(CaptureAfter(tokens, Min(LocationPositions(tokens)), Letters \cup {" "}))>>

\* lines 123-126
nameCriterion(tokens) ==
  LET class == Letters \cup {" "}
      found == PhrasePositions(tokens, {"name", "names"}, {"include", "containing", "with"}, class)
  IN IF found = {} THEN <<>>
     ELSE <<Trim(CaptureAfter(tokens, Min(found) + 1, class))>>

extractSearchCriteria(tokens) ==
  [duration |-> durationCriterion(tokens),
   priority |-> priorityCriterion(tokens),
   phase |-> phaseCriterion(tokens),
   skills |-> skillsCriterion(tokens),
   location |-> locationCriterion(tokens),
   name |-> nameCriterion(tokens)]

(***************************************************************************)
(* nlpSearch: scoring                                                      *)
(*                                                                         *)
(* The records are `any`: a field the record does not have reads as        *)
(* undefined, which `&&` treats like the empty string and join(' ') prints *)
(* as the empty string.                                                    *)
(***************************************************************************)
\* item[field] for a text field
TextField(item, field) == IF field \in DOMAIN item THEN item[field] ELSE ""

\* item[field] || [] for a list field
ListField(item, field) == IF field \in DOMAIN item THEN item[field] ELSE <<>>

\* the switch of lines 139-155
DurationMatches(operator, duration, value) ==
  CASE operator = ">" -> duration > value
    [] operator = "<" -> duration < value
    [] operator = ">=" -> duration >= value
    [] operator = "<=" -> duration <= value
    [] operator = "=" -> duration = value
    [] OTHER -> FALSE

\* the switch of lines 165-175: it has no case for >= and <=
PriorityMatches(operator, priority, value) ==
  CASE operator = ">" -> priority > value
    [] operator = "<" -> priority < value
    [] operator = "=" -> priority = value
    [] OTHER -> FALSE

\* criteria.skills.filter(skill => list.some(s => s.toLowerCase().includes(skill))).length
MatchingSkills(keywords, list) ==
  Cardinality({k \in 1..Len(keywords) :
                 \E n \in 1..Len(list) : IsSubstring(keywords[k], Chars(LowerCase(list[n])))})

\* criteria.x && item.Field && item.Field.toLowerCase().includes(criteria.x)
PhraseMatches(criterion, text) ==
  /\ criterion # <<>>
  /\ criterion[1] # <<>>
  /\ text # ""
  /\ IsSubstring(criterion[1], Chars(LowerCase(text)))

\* the words of the query found in fields.join(' ').toLowerCase()
GeneralMatches(fields, tokens) ==
  LET searchableText == JoinChars([n \in 1..Len(fields) |-> LowerCase(fields[n])])
  IN Cardinality({k \in 1..Len(tokens) : IsSubstring(Chars(tokens[k]), searchableText)})

\* scoreTaskMatch before the general text matching
taskCriteriaScore(task, criteria) ==
  (IF /\ criteria.duration # <<>>
      /\ "Duration" \in DOMAIN task
      /\ DurationMatches(criteria.duration[1].operator, task.Duration,
                         criteria.duration[1].value)
     THEN 10 ELSE 0)
  + (IF /\ criteria.priority # <<>>
        /\ "PriorityLevel" \in DOMAIN task
        /\ PriorityMatches(criteria.priority[1].operator, task.PriorityLevel,
                           criteria.priority[1].value)
       THEN 8 ELSE 0)
  + (IF /\ criteria.phase # <<>>
        /\ \E n \in 1..Len(criteria.phase[1]) :
             criteria.phase[1][n] \in Range(ListField(task, "PreferredPhases"))
       THEN 6 ELSE 0)
  + (IF criteria.skills # <<>>
       THEN MatchingSkills(criteria.skills[1], ListField(task, "RequiredSkills")) * 4
       ELSE 0)
  + (IF PhraseMatches(criteria.name, TextField(task, "Name")) THEN 5 ELSE 0)

\* lines 205-218
GeneralScoreMut(score, fields, tokens) == score + GeneralMatches(fields, tokens) * 2

GeneralScore(score, fields, tokens) ==
  IF score = 0 THEN GeneralMatches(fields, tokens) * 2 ELSE score

scoreTaskMatch(task, criteria, tokens) ==
  GeneralScore(taskCriteriaScore(task, criteria),
               <<TextField(task, "Name"), TextField(task, "TaskID")>>
                 \o ListField(task, "RequiredSkills"),
               tokens)

workerCriteriaScore(worker, criteria) ==
  (IF criteria.skills # <<>>
     THEN MatchingSkills(criteria.skills[1], ListField(worker, "Skills")) * 6
     ELSE 0)
  + (IF PhraseMatches(criteria.location, TextField(worker, "Location")) THEN 8 ELSE 0)
  + (IF PhraseMatches(criteria.name, TextField(worker, "Name")) THEN 5 ELSE 0)

scoreWorkerMatch(worker, criteria, tokens) ==
  GeneralScore(workerCriteriaScore(worker, criteria),
               <<TextField(worker, "Name"), TextField(worker, "WorkerID"),
                 TextField(worker, "Location")>> \o ListField(worker, "Skills"),
               tokens)

clientCriteriaScore(client, criteria) ==
  (IF PhraseMatches(criteria.location, TextField(client, "Location")) THEN 8 ELSE 0)
  + (IF PhraseMatches(criteria.name, TextField(client, "Name")) THEN 5 ELSE 0)

scoreClientMatch(client, criteria, tokens) ==
  GeneralScore(clientCriteriaScore(client, criteria),
               <<TextField(client, "Name"), TextField(client, "ClientID"),
                 TextField(client, "Location"), TextField(client, "ContactInfo")>>,
               tokens)

\* the pieces that descriptions.join(' | ') joins
generateMatchDescription(item, criteria) ==
  (IF criteria.duration # <<>> /\ "Duration" \in DOMAIN item /\ item.Duration # 0
     THEN << <<"Duration: ", item.Duration>> >> ELSE <<>>)
  \o (IF criteria.priority # <<>> /\ "PriorityLevel" \in DOMAIN item /\ item.PriorityLevel # 0
        THEN << <<"Priority: ", item.PriorityLevel>> >> ELSE <<>>)
  \o (IF criteria.phase # <<>> /\ "PreferredPhases" \in DOMAIN item
        THEN << <<"Phases: ", item.PreferredPhases>> >> ELSE <<>>)
  \o (IF criteria.skills # <<>> /\ "Skills" \in DOMAIN item
        THEN << <<"Skills: ", item.Skills>> >> ELSE <<>>)
  \o (IF TextField(item, "Location") # ""
        THEN << <<"Location: ", item.Location>> >> ELSE <<>>)

\* the results pushed by one forEach: the records with score > 0, in order
RECURSIVE Matches(_, _, _, _, _)
Matches(entity, idField, items, scores, criteria) ==
  IF items = <<>> THEN <<>>
  ELSE (IF Head(scores) > 0
          THEN <<[entity |-> entity, id |-> TextField(Head(items), idField),
                  match |-> generateMatchDescription(Head(items), criteria),
                  score |-> Head(scores)]>>
          ELSE <<>>)
       \o Matches(entity, idField, Tail(items), Tail(scores), criteria)

\* results.sort((a, b) => b.score - a.score); Array.prototype.sort is stable:
\* a result goes behind the results that do not score less
RECURSIVE InsertByScoreMut(_, _)
InsertByScoreMut(sorted, r) ==
  IF sorted = <<>> THEN <<r>>
  ELSE IF Head(sorted).score > r.score
         THEN <<Head(sorted)>> \o InsertByScoreMut(Tail(sorted), r)
  ELSE <<r>> \o sorted

RECURSIVE InsertByScore(_, _)
InsertByScore(sorted, r) ==
  IF sorted = <<>> THEN <<r>>
  ELSE IF Head(sorted).score >= r.score
         THEN <<Head(sorted)>> \o InsertByScore(Tail(sorted), r)
  ELSE <<r>> \o sorted

RECURSIVE SortByScore(_, _)
SortByScore(results, sorted) ==
  IF results = <<>> THEN sorted
  ELSE SortByScore(Tail(results), InsertByScore(sorted, Head(results)))

\* lines 14-60: the results before the sort
UnsortedResults(query, cs, ws, ts) ==
  LET tokens == QueryTokens(query)
      criteria == extractSearchCriteria(tokens)
  IN Matches("tasks", "TaskID", ts,
             [n \in 1..Len(ts) |-> scoreTaskMatch(ts[n], criteria, tokens)], criteria)
     \o Matches("workers", "WorkerID", ws,
                [n \in 1..Len(ws) |-> scoreWorkerMatch(ws[n], criteria, tokens)], criteria)
     \o Matches("clients", "ClientID", cs,
                [n \in 1..Len(cs) |-> scoreClientMatch(cs[n], criteria, tokens)], criteria)

searchWithNaturalLanguage(query, cs, ws, ts) ==
  SortByScore(UnsortedResults(query, cs, ws, ts), <<>>)

(***************************************************************************)
(* searchWithNaturalLanguage as a function: every query and every input    *)
(* within the bounds, one call                                             *)
(***************************************************************************)
\* the fields of a record the scorer reads
SearchTask(id, name, duration, priority, skills, phases) ==
  [TaskID |-> id, Name |-> name, Duration |-> duration, PriorityLevel |-> priority,
   RequiredSkills |-> skills, PreferredPhases |-> phases]

SearchWorker(id, name, location, skills) ==
  [WorkerID |-> id, Name |-> name, Location |-> location, Skills |-> skills]

SearchClient(id, name, location, contact, priority) ==
  [ClientID |-> id, Name |-> name, Location |-> location, ContactInfo |-> contact,
   PriorityLevel |-> priority]

SearchTaskSamples ==
  { SearchTask("T1", "Build", 12, 4, <<"JS", "py">>, <<2>>),
    SearchTask("T2", "Ship", 3, 2, <<"py">>, <<2, 3>>),
    SearchTask("T3", "", 5, 3, <<>>, <<1>>) }

SearchWorkerSamples ==
  { SearchWorker("W1", "Ann", "London", <<"js">>),
    SearchWorker("W2", "Cy", "Paris", <<"js", "py">>) }

SearchClientSamples ==
  { SearchClient("C1", "Acme", "London", "", 3),
    SearchClient("C2", "", "", "Ann", 1) }

QuerySamples ==
  { <<"tasks", "having", "a", "Duration", "of", "more", "than", "5">>,
    <<"Duration", "more", "than", "5">>,
    <<"duration", "less", "than", "5">>,
    <<"duration", ">", "5", "phase", "2">>,
    <<"priority", ">=", "3", "phase", "2">>,
    <<"skills", "with", "js,py">>,
    <<"name", "containing", "build">>,
    <<"workers", "in", "London">>,
    <<"js", "in", "London">>,
    <<"phases", "2,3">>,
    <<"", "nothing">>,
    <<"London", "">> }

InitSearch ==
  /\ clients \in SeqsUpTo(SearchClientSamples, 1)
  /\ workers \in SeqsUpTo(SearchWorkerSamples, MaxRecs)
  /\ tasks \in SeqsUpTo(SearchTaskSamples, MaxRecs)
  /\ search \in {[NotSearched EXCEPT !.query = q] : q \in QuerySamples}
  /\ sheet = NoSheet
  /\ InitPriority
  /\ validationErrors = <<>>
  /\ businessRules = <<>>
  /\ ruleSuggestions = <<>>
  /\ timers = <<>>
  /\ uploads = <<>>
  /\ clock = 0
  /\ edits = 0
  /\ lastAction = Did("init", FALSE)
  /\ vrun = NotRun
  /\ vheap = NoHeap
  /\ vfirst = NotRun

\* the score of every record before and after the general text matching
Scored(query, cs, ws, ts) ==
  LET tokens == QueryTokens(query)
      criteria == extractSearchCriteria(tokens)
  IN [tasks |-> [n \in 1..Len(ts) |->
                   [criteria |-> taskCriteriaScore(ts[n], criteria),
                    score |-> scoreTaskMatch(ts[n], criteria, tokens)]],
      workers |-> [n \in 1..Len(ws) |->
                     [criteria |-> workerCriteriaScore(ws[n], criteria),
                      score |-> scoreWorkerMatch(ws[n], criteria, tokens)]],
      clients |-> [n \in 1..Len(cs) |->
                     [criteria |-> clientCriteriaScore(cs[n], criteria),
                      score |-> scoreClientMatch(cs[n], criteria, tokens)]]]

\* const results = searchWithNaturalLanguage(query, state.clients, state.workers, state.tasks)
RunSearch ==
  /\ ~search.done
  /\ search' = [done |-> TRUE,
                query |-> search.query,
                criteria |-> extractSearchCriteria(QueryTokens(search.query)),
                scored |-> Scored(search.query, clients, workers, tasks),
                results |-> searchWithNaturalLanguage(search.query, clients, workers, tasks)]
  /\ lastAction' = Did("searchWithNaturalLanguage", TRUE)
  /\ UNCHANGED <<clients, workers, tasks, validationErrors, businessRules,
                 ruleSuggestions, timers, uploads, clock, edits, vrun, vheap, vfirst,
                 sheet, prioritySettings, priorityProfile>>

NextSearch == RunSearch

SpecSearch == InitSearch /\ [][NextSearch]_vars

(***************************************************************************)
(* Properties of validateData                                              *)
(***************************************************************************)
Validated == vrun.done /\ ~vrun.threw

\* positions of the returned findings with this id
WithId(id) == {k \in 1..Len(vrun.errors) : vrun.errors[k].id = id}

\* positions of the returned findings of one entity and one rule
WithRule(prefix, rule) ==
  {k \in 1..Len(vrun.errors) :
     vrun.errors[k].id[1] = prefix /\ vrun.errors[k].id[3] = rule}

\* record i of the id column ids repeats the id of an earlier record
RepeatsEarlier(ids, i) == ids[i] # "" /\ \E j \in 1..(i - 1) : ids[j] = ids[i]

DuplicateRule(prefix, entity, ids) ==
  /\ \A i \in 1..Len(ids) :
       ids[i] # "" =>
         /\ Cardinality(WithId(<<prefix, i - 1, "duplicate_id">>))
              = IF RepeatsEarlier(ids, i) THEN 1 ELSE 0
         /\ \A k \in WithId(<<prefix, i - 1, "duplicate_id">>) :
              /\ vrun.errors[k].type = "error"
              /\ vrun.errors[k].entity = entity
              /\ vrun.errors[k].rowId = <<ids[i]>>
  /\ Cardinality(WithRule(prefix, "duplicate_id"))
       = Cardinality({i \in 1..Len(ids) : RepeatsEarlier(ids, i)})

\* C4: among the records of a collection sharing one non-empty id, the first
\* gets no duplicate-id finding and every later one gets exactly one
\* duplicate-id error, keyed by the later record's own index.
C4_FirstOccurrenceWins ==
  Validated =>
    /\ DuplicateRule("client", "clients", [i \in 1..Len(clients) |-> clients[i].ClientID])
    /\ DuplicateRule("worker", "workers", [i \in 1..Len(workers) |-> workers[i].WorkerID])
    /\ DuplicateRule("task", "tasks", [i \in 1..Len(tasks) |-> tasks[i].TaskID])

\* three tasks share an id: the first is clean, the second and third are flagged
C4_Witness ==
  /\ Validated
  /\ Len(tasks) = 3
  /\ tasks[1].TaskID = "T1" /\ tasks[2].TaskID = "T1" /\ tasks[3].TaskID = "T1"
  /\ WithId(<<"task", 0, "duplicate_id">>) = {}
  /\ WithId(<<"task", 1, "duplicate_id">>) # {}
  /\ WithId(<<"task", 2, "duplicate_id">>) # {}

EmptySlots(worker) == worker.AvailableSlots = JsArray(<<>>)

\* C5 as stated: a worker with AvailableSlots = [] gets the no_slots error and
\* does not get the overloaded warning.
C5_NoOverloadedWhenNoSlots ==
  Validated =>
    \A i \in 1..Len(workers) :
      EmptySlots(workers[i]) =>
        /\ WithId(<<"worker", i - 1, "no_slots">>) # {}
        /\ WithId(<<"worker", i - 1, "overloaded">>) = {}

\* C5 amended: a worker with AvailableSlots = [] gets exactly one no_slots
\* error, and gets the overloaded warning as well exactly when its
\* MaxLoadPerPhase is at least 1 (the two checks are independent).
C5_NoSlotsAndOverloadedIndependent ==
  Validated =>
    \A i \in 1..Len(workers) :
      EmptySlots(workers[i]) =>
        /\ Cardinality(WithId(<<"worker", i - 1, "no_slots">>)) = 1
        /\ \A k \in WithId(<<"worker", i - 1, "no_slots">>) : vrun.errors[k].type = "error"
        /\ Cardinality(WithId(<<"worker", i - 1, "overloaded">>))
             = IF workers[i].MaxLoadPerPhase >= 1 THEN 1 ELSE 0
        /\ \A k \in WithId(<<"worker", i - 1, "overloaded">>) : vrun.errors[k].type = "warning"

C5_Witness ==
  /\ Validated
  /\ Len(workers) >= 1
  /\ EmptySlots(workers[1])
  /\ workers[1].MaxLoadPerPhase = 1
  /\ WithId(<<"worker", 0, "no_slots">>) # {}
  /\ WithId(<<"worker", 0, "overloaded">>) # {}

\* C6: validateData never throws for a worker whose AvailableSlots is empty
\* or not an array: the failure is a no_slots error and the findings of all
\* three collections are returned.
C6_NeverThrows ==
  vrun.done =>
    /\ ~vrun.threw
    /\ \A i \in 1..Len(workers) :
         (~IsArray(workers[i].AvailableSlots) \/ EmptySlots(workers[i])) =>
           \E k \in WithId(<<"worker", i - 1, "no_slots">>) : vrun.errors[k].type = "error"

\* C7: the ids of the findings of one validateData run are pairwise distinct.
C7_FindingIdsDistinct ==
  Validated =>
    \A k, l \in 1..Len(vrun.errors) :
      k # l => vrun.errors[k].id # vrun.errors[l].id

AllTaskIds == {tasks[i].TaskID : i \in 1..Len(tasks)}

UnknownTaskRule(known) ==
  \A i \in 1..Len(clients) :
    \A x \in Range(clients[i].RequestedTaskIDs) :
      /\ Cardinality(WithId(<<"client", i - 1, "unknown_task", x>>))
           = IF x \in known THEN 0 ELSE Occurrences(clients[i].RequestedTaskIDs, x)
      /\ \A k \in WithId(<<"client", i - 1, "unknown_task", x>>) :
           /\ vrun.errors[k].type = "error"
           /\ vrun.errors[k].field = "RequestedTaskIDs"
           /\ vrun.errors[k].message = <<"Unknown task reference: ", x>>

\* C8 as stated: every entry of a client's RequestedTaskIDs that is not the
\* TaskID of any task gets one error finding on RequestedTaskIDs naming it,
\* and an entry that is the TaskID of a task gets none.
C8_UnknownTaskReferences == Validated => UnknownTaskRule(AllTaskIds)

\* C8 amended: the same with "the non-empty TaskID of a task": a blank
\* TaskID resolves nothing, so a blank entry is reported even when a task
\* with a blank TaskID exists.
C8_UnknownNonEmptyTaskReferences == Validated => UnknownTaskRule(AllTaskIds \ {""})

C8_Witness ==
  /\ Validated
  /\ Len(clients) >= 1 /\ Len(tasks) >= 1
  /\ clients[1].RequestedTaskIDs = <<"T1", "T2">>
  /\ AllTaskIds = {"T1"}
  /\ WithId(<<"client", 0, "unknown_task", "T2">>) # {}
  /\ WithId(<<"client", 0, "unknown_task", "T1">>) = {}

\* number of workers whose Skills contain every required skill of the task
Qualifying(task) ==
  Cardinality({i \in 1..Len(workers) : Range(task.RequiredSkills) \subseteq Range(workers[i].Skills)})

\* C9: a task gets the insufficient-workers warning exactly when fewer
\* workers qualify than its MaxConcurrent; there is one such warning per
\* task and its message names both numbers.
C9_InsufficientWorkers ==
  Validated =>
    /\ \A i \in 1..Len(tasks) :
         /\ Cardinality(WithId(<<"task", i - 1, "insufficient_workers">>))
              = IF Qualifying(tasks[i]) < tasks[i].MaxConcurrent THEN 1 ELSE 0
         /\ \A k \in WithId(<<"task", i - 1, "insufficient_workers">>) :
              /\ vrun.errors[k].type = "warning"
              /\ vrun.errors[k].message
                   = <<"MaxConcurrent (", tasks[i].MaxConcurrent,
                       ") exceeds qualified workers (", Qualifying(tasks[i]), ")">>
    /\ Cardinality(WithRule("task", "insufficient_workers"))
         = Cardinality({i \in 1..Len(tasks) : Qualifying(tasks[i]) < tasks[i].MaxConcurrent})

\* MaxConcurrent 3 with 2 qualifying workers: one warning naming 3 and 2
C9_Witness ==
  /\ Validated
  /\ Len(tasks) >= 1 /\ Len(workers) = 2
  /\ tasks[1].MaxConcurrent = 3
  /\ Qualifying(tasks[1]) = 2
  /\ \E k \in WithId(<<"task", 0, "insufficient_workers">>) :
       vrun.errors[k].message
         = <<"MaxConcurrent (", 3, ") exceeds qualified workers (", 2, ")">>

\* supply and demand of a phase as C10 defines them: one term per worker or
\* task that lists the phase
RECURSIVE SumOver(_, _)
SumOver(S, f) ==
  IF S = {} THEN 0
  ELSE LET x == CHOOSE y \in S : TRUE IN f[x] + SumOver(S \ {x}, f)

Supply(p) ==
  SumOver({i \in 1..Len(workers) : p \in Range(workers[i].AvailableSlots.items)},
          [i \in 1..Len(workers) |-> workers[i].MaxLoadPerPhase])

Demand(p) ==
  SumOver({i \in 1..Len(tasks) : p \in Range(tasks[i].PreferredPhases)},
          [i \in 1..Len(tasks) |-> tasks[i].Duration])

AllPhases ==
  UNION {Range(tasks[i].PreferredPhases) : i \in 1..Len(tasks)}
  \cup UNION {Range(workers[i].AvailableSlots.items) : i \in 1..Len(workers)}

\* C10: exactly one oversaturation warning (rowId 'system', naming the phase,
\* demand and supply) for each phase whose demand exceeds its supply, and
\* none for any other phase.
C10_PhaseSaturation ==
  Validated =>
    /\ \A p \in AllPhases :
         /\ Cardinality(WithId(<<"phase", p, "oversaturated">>))
              = IF Demand(p) > Supply(p) THEN 1 ELSE 0
         /\ \A k \in WithId(<<"phase", p, "oversaturated">>) :
              /\ vrun.errors[k].type = "warning"
              /\ vrun.errors[k].rowId = <<"system">>
              /\ vrun.errors[k].message
                   = <<"Phase ", p, " is oversaturated: demand (", Demand(p),
                       ") exceeds supply (", Supply(p), ")">>
    /\ Cardinality({k \in 1..Len(vrun.errors) : vrun.errors[k].id[1] = "phase"})
         = Cardinality({p \in AllPhases : Demand(p) > Supply(p)})

\* the skills some worker has
AllWorkerSkills == UNION {Range(workers[i].Skills) : i \in 1..Len(workers)}

\* the entries of the RequiredSkills lists that no worker has, as <<task, position>>
MissingSkillEntries ==
  UNION {{<<i, j>> : j \in {n \in 1..Len(tasks[i].RequiredSkills) :
                                  tasks[i].RequiredSkills[n] \notin AllWorkerSkills}} :
           i \in 1..Len(tasks)}

\* C11: every required skill of a task that no worker has gets a finding of
\* type warning (never error) on field RequiredSkills, one for each entry
\* listing it, and a required skill that some worker has gets none.
C11_MissingSkillWarnings ==
  Validated =>
    /\ \A i \in 1..Len(tasks) :
         \A s \in Range(tasks[i].RequiredSkills) :
           /\ Cardinality(WithId(<<"task", i - 1, "missing_skill", s>>))
                = IF s \in AllWorkerSkills THEN 0
                  ELSE Occurrences(tasks[i].RequiredSkills, s)
           /\ \A k \in WithId(<<"task", i - 1, "missing_skill", s>>) :
                /\ vrun.errors[k].type = "warning"
                /\ vrun.errors[k].entity = "tasks"
                /\ vrun.errors[k].field = "RequiredSkills"
                /\ vrun.errors[k].message = <<"No workers have required skill: ", s>>
    /\ Cardinality(WithRule("task", "missing_skill")) = Cardinality(MissingSkillEntries)

\* a task needs js and py, the workers offer js only: py is reported, js is not
C11_Witness ==
  /\ Validated
  /\ Len(tasks) >= 1 /\ Len(workers) = 2
  /\ tasks[1].RequiredSkills = <<"js", "py">>
  /\ AllWorkerSkills = {"js"}
  /\ \E k \in WithId(<<"task", 0, "missing_skill", "py">>) : vrun.errors[k].type = "warning"
  /\ WithId(<<"task", 0, "missing_skill", "js">>) = {}

\* C12: validateData is deterministic: a run on the same clients, workers
\* and tasks returns the finding list of the first run (same findings, same
\* order, same ids), whatever calls were made before or in between.
C12_Deterministic ==
  (vrun.done /\ vfirst.done) =>
    /\ vrun.threw = vfirst.threw
    /\ vrun.errors = vfirst.errors

\* the same collections validated, another caller's collections validated,
\* the same collections validated again: findings, and the same as before
C12_Witness ==
  /\ vheap.trail = <<"own", "other", "own">>
  /\ vheap.tasks # {}
  /\ Len(tasks) = 2 /\ tasks[1].TaskID = tasks[2].TaskID
  /\ WithId(<<"task", 1, "duplicate_id">>) # {}
  /\ WithId(<<"task", 0, "duplicate_id">>) = {}
  /\ vrun.errors = vfirst.errors

\* the attribute map is text that does not deserialize to an object
UnparsableText(attrs) == attrs = "text"

\* the invalid-JSON rule for the records of one collection, given their
\* AttributesJSON column
InvalidJsonRule(prefix, attrs) ==
  \A i \in 1..Len(attrs) :
    /\ Cardinality(WithId(<<prefix, i - 1, "invalid_json">>))
         = IF UnparsableText(attrs[i]) THEN 1 ELSE 0
    /\ \A k \in WithId(<<prefix, i - 1, "invalid_json">>) :
         /\ vrun.errors[k].type = "error"
         /\ vrun.errors[k].field = "AttributesJSON"

\* C13: a client, worker or task gets the invalid-JSON error on field
\* AttributesJSON if and only if its attribute map is text that fails to
\* deserialize to an object; an object, an absent map and text that
\* deserializes to an object get none.
C13_InvalidJsonIffUnparsable ==
  Validated =>
    /\ InvalidJsonRule("client", [i \in 1..Len(clients) |-> clients[i].AttributesJSON])
    /\ InvalidJsonRule("worker", [i \in 1..Len(workers) |-> workers[i].AttributesJSON])
    /\ InvalidJsonRule("task", [i \in 1..Len(tasks) |-> tasks[i].AttributesJSON])

\* one error finding of the rule on the field for exactly the records that
\* are out of bounds
BoundsRule(prefix, rule, field, outOfBounds) ==
  /\ \A i \in 1..Len(outOfBounds) :
       /\ Cardinality(WithId(<<prefix, i - 1, rule>>)) = IF outOfBounds[i] THEN 1 ELSE 0
       /\ \A k \in WithId(<<prefix, i - 1, rule>>) :
            /\ vrun.errors[k].type = "error"
            /\ vrun.errors[k].field = field
  /\ Cardinality(WithRule(prefix, rule))
       = Cardinality({i \in 1..Len(outOfBounds) : outOfBounds[i]})

\* C14: validateData emits an error finding exactly when a client's
\* PriorityLevel is outside 1..5, a worker's MaxLoadPerPhase is below 1, a
\* task's Duration is below 1 or a task's MaxConcurrent is below 1, and the
\* call leaves the records as they were (nothing is clamped).
C14_OutOfBoundsReported ==
  /\ [](Validated =>
          /\ BoundsRule("client", "invalid_priority", "PriorityLevel",
                        [i \in 1..Len(clients) |->
                           clients[i].PriorityLevel \notin 1..5])
          /\ BoundsRule("worker", "invalid_load", "MaxLoadPerPhase",
                        [i \in 1..Len(workers) |-> workers[i].MaxLoadPerPhase < 1])
          /\ BoundsRule("task", "invalid_duration", "Duration",
                        [i \in 1..Len(tasks) |-> tasks[i].Duration < 1])
          /\ BoundsRule("task", "invalid_concurrent", "MaxConcurrent",
                        [i \in 1..Len(tasks) |-> tasks[i].MaxConcurrent < 1]))
  /\ [][lastAction'.type = "validateData" =>
          /\ clients' = clients
          /\ workers' = workers
          /\ tasks' = tasks]_vars

\* a client with priority 6, a worker with load 0 and a task with duration 0
\* and concurrency 0 were validated: four errors, and the values are still there
C14_Witness ==
  /\ Validated
  /\ Len(clients) >= 1 /\ Len(workers) >= 1 /\ Len(tasks) >= 1
  /\ clients[1].PriorityLevel = 6
  /\ workers[1].MaxLoadPerPhase = 0
  /\ tasks[1].Duration = 0 /\ tasks[1].MaxConcurrent = 0
  /\ WithId(<<"client", 0, "invalid_priority">>) # {}
  /\ WithId(<<"worker", 0, "invalid_load">>) # {}
  /\ WithId(<<"task", 0, "invalid_duration">>) # {}
  /\ WithId(<<"task", 0, "invalid_concurrent">>) # {}

\* the pass a finding belongs to, in the order of spec 4.1 and 4.2:
\* clients, workers, tasks, unknown task references, skill coverage with
\* concurrency feasibility, phase saturation
PassOf(f) ==
  CASE f.id[1] = "client" /\ f.id[3] # "unknown_task" -> 1
    [] f.id[1] = "worker" -> 2
    [] f.id[1] = "task" /\ f.id[3] \notin {"missing_skill", "insufficient_workers"} -> 3
    [] f.id[1] = "client" /\ f.id[3] = "unknown_task" -> 4
    [] f.id[1] = "task" /\ f.id[3] \in {"missing_skill", "insufficient_workers"} -> 5
    [] f.id[1] = "phase" -> 6

\* the place of a rule in the rule lists of spec 4.1 and 4.2
RuleOrder ==
  [client |-> <<"no_id", "no_name", "duplicate_id", "invalid_priority", "invalid_json",
                "unknown_task">>,
   worker |-> <<"no_id", "no_name", "duplicate_id", "no_slots", "invalid_load",
                "overloaded", "invalid_json">>,
   task |-> <<"no_id", "no_name", "duplicate_id", "invalid_duration", "invalid_concurrent",
              "invalid_json", "missing_skill", "insufficient_workers">>,
   phase |-> <<"oversaturated">>]

RuleRankOf(f) == CHOOSE n \in 1..Len(RuleOrder[f.id[1]]) : RuleOrder[f.id[1]][n] = f.id[3]

\* the record index of a finding (the findings of the phase pass have none)
IndexOf(f) == IF f.id[1] = "phase" THEN 0 ELSE f.id[2]

\* f is emitted no later than g: by pass, then record index, then rule
InOrder(f, g) ==
  \/ PassOf(f) < PassOf(g)
  \/ /\ PassOf(f) = PassOf(g)
     /\ \/ IndexOf(f) < IndexOf(g)
        \/ IndexOf(f) = IndexOf(g) /\ RuleRankOf(f) <= RuleRankOf(g)

\* the findings of the required-field rules of one collection, given its id
\* and name columns: one for every blank cell, whatever else the record has
RequiredFieldRule(prefix, ids, names) ==
  \A i \in 1..Len(ids) :
    /\ Cardinality(WithId(<<prefix, i - 1, "no_id">>)) = IF ids[i] = "" THEN 1 ELSE 0
    /\ Cardinality(WithId(<<prefix, i - 1, "no_name">>)) = IF names[i] = "" THEN 1 ELSE 0

\* C15: the findings come in the order clients, workers, tasks, unknown task
\* references, skill coverage and concurrency feasibility, phase saturation;
\* inside a pass by record index and, for one record, in the rule order of
\* the spec; and a rule reports a record whatever other rules reported it
\* (blank id, blank name and repeated id each give their finding).
C15_FindingOrder ==
  Validated =>
    /\ \A k, l \in 1..Len(vrun.errors) :
         k < l => InOrder(vrun.errors[k], vrun.errors[l])
    /\ RequiredFieldRule("client", [i \in 1..Len(clients) |-> clients[i].ClientID],
                         [i \in 1..Len(clients) |-> clients[i].ClientName])
    /\ RequiredFieldRule("worker", [i \in 1..Len(workers) |-> workers[i].WorkerID],
                         [i \in 1..Len(workers) |-> workers[i].WorkerName])
    /\ RequiredFieldRule("task", [i \in 1..Len(tasks) |-> tasks[i].TaskID],
                         [i \in 1..Len(tasks) |-> tasks[i].TaskName])
    /\ \A i \in 1..Len(tasks) :
         RepeatsEarlier([n \in 1..Len(tasks) |-> tasks[n].TaskID], i)
           => WithId(<<"task", i - 1, "duplicate_id">>) # {}

\* findings of all six passes in one run, and a task reported by four rules
C15_Witness ==
  /\ Validated
  /\ {PassOf(vrun.errors[k]) : k \in 1..Len(vrun.errors)} = 1..6
  /\ \E i \in 1..Len(tasks) :
       /\ WithId(<<"task", i - 1, "no_name">>) # {}
       /\ WithId(<<"task", i - 1, "duplicate_id">>) # {}
       /\ WithId(<<"task", i - 1, "missing_skill", "go">>) # {}
       /\ WithId(<<"task", i - 1, "insufficient_workers">>) # {}

(***************************************************************************)
(* Properties of the store                                                 *)
(***************************************************************************)
\* C1: once the re-validation scheduled by saveEdit has applied its
\* SET_VALIDATION_ERRORS, state.validationErrors is validateData of the
\* current, post-edit collections.
C1_RevalidationSeesEdit ==
  lastAction = Did("revalidate", TRUE) =>
    validationErrors = validateData(clients, workers, tasks).errors

\* the collection an export operation writes is not empty
HasDataFor(op) ==
  IF op.type = "exportCSV" THEN Len(Snapshot[op.arg[1]]) # 0
  ELSE Len(clients) + Len(workers) + Len(tasks) > 0

\* C2: an export operation (exportData or exportCSV) is refused when a
\* finding of type error exists, and goes through when there is none.
C2_ExportBlockedIffErrors ==
  lastAction.type \in {"exportData", "exportCSV"} =>
    /\ hasErrors => ~lastAction.done
    /\ (~hasErrors /\ HasDataFor(lastAction)) => lastAction.done

\* the places where two versions of a collection differ
ChangedIn(before, after) == {i \in 1..Len(before) : after[i] # before[i]}

\* C23: a single-record partial update (UPDATE_CLIENT, UPDATE_WORKER,
\* UPDATE_TASK) changes one record of the target collection only, and that
\* record in the patched field only; every other record, the two other
\* collections, validationErrors, businessRules and ruleSuggestions stay as
\* they are, in every reachable state of the store.
C23_SingleRecordUpdate ==
  [][lastAction'.type = "saveEdit" =>
       /\ Len(clients') = Len(clients)
       /\ Len(workers') = Len(workers)
       /\ Len(tasks') = Len(tasks)
       /\ Cardinality(ChangedIn(clients, clients'))
            + Cardinality(ChangedIn(workers, workers'))
            + Cardinality(ChangedIn(tasks, tasks')) <= 1
       /\ \A i \in ChangedIn(clients, clients') :
            Cardinality({f \in DOMAIN clients[i] : clients'[i][f] # clients[i][f]}) = 1
       /\ \A i \in ChangedIn(workers, workers') :
            Cardinality({f \in DOMAIN workers[i] : workers'[i][f] # workers[i][f]}) = 1
       /\ \A i \in ChangedIn(tasks, tasks') :
            Cardinality({f \in DOMAIN tasks[i] : tasks'[i][f] # tasks[i][f]}) = 1
       /\ validationErrors' = validationErrors
       /\ businessRules' = businessRules
       /\ ruleSuggestions' = ruleSuggestions
  ]_vars

\* the suggestions other than id, in order
Others(suggestions, id) == SelectSeq(suggestions, LAMBDA x : x.id # id)

\* C3: accepting a pending suggestion appends exactly one rule converted
\* 1:1 from it (name = title, same description, type and parameters, a
\* generated id, active, priority 50) and removes the suggestion;
\* dismissing removes the suggestion and leaves the rules unchanged.
C3_AcceptAndDismiss ==
  [][ /\ \A id \in SuggestionIds :
           lastAction' = DidWith("ACCEPT_RULE_SUGGESTION", TRUE, id) =>
             /\ Len(businessRules') = Len(businessRules) + 1
             /\ SubSeq(businessRules', 1, Len(businessRules)) = businessRules
             /\ LET rule == businessRules'[Len(businessRules')]
                    suggestion == FindSuggestion(id)
                IN /\ rule.name = suggestion.title
                   /\ rule.description = suggestion.description
                   /\ rule.type = suggestion.type
                   /\ rule.parameters = suggestion.parameters
                   /\ rule.active = TRUE
                   /\ rule.priority = 50
                   /\ rule.id = <<"rule", clock>>
                   /\ rule.id # suggestion.id
             /\ ruleSuggestions' = Others(ruleSuggestions, id)
      /\ \A id \in SuggestionIds :
           lastAction'.type = "DISMISS_RULE_SUGGESTION" /\ lastAction'.arg = id =>
             /\ businessRules' = businessRules
             /\ ruleSuggestions' = Others(ruleSuggestions, id)
    ]_vars

\* a suggestion was accepted earlier and another has just been dismissed
C3_Witness ==
  /\ lastAction.type = "DISMISS_RULE_SUGGESTION"
  /\ lastAction.done
  /\ Len(businessRules) = 1
  /\ businessRules[1].name = "Co-Run Tasks Rule"
  /\ businessRules[1].parameters = [tasks |-> <<"T12", "T14">>]
  /\ businessRules[1].priority = 50
  /\ ruleSuggestions = <<>>

\* C24: after any sequence of rule creations (handleSave adding a rule,
\* ACCEPT_RULE_SUGGESTION creating one) the ids of the rules in
\* state.businessRules are pairwise distinct, also when two rules are
\* created while the clock has not advanced.
C24_RuleIdsDistinct ==
  \A i, j \in 1..Len(businessRules) :
    i # j => businessRules[i].id # businessRules[j].id

\* the store: everything the reducer holds
Store == <<clients, workers, tasks, validationErrors, businessRules, ruleSuggestions>>

\* C27: ACCEPT_RULE_SUGGESTION with an id that is not in
\* state.ruleSuggestions (a suggestion already accepted or dismissed) leaves
\* the whole store unchanged and creates no rule, so accepting a suggestion
\* twice creates one rule.
C27_AcceptUnknownIsNoOp ==
  [][\A id \in SuggestionIds :
       (lastAction'.type = "ACCEPT_RULE_SUGGESTION" /\ lastAction'.arg = id /\ ~Pending(id))
         => Store' = Store
  ]_vars

\* the co-run suggestion was accepted, and a second accept of it has just
\* found nothing: there is one rule
C27_Witness ==
  /\ lastAction = DidWith("ACCEPT_RULE_SUGGESTION", FALSE, <<"suggestion", 0, 1>>)
  /\ Len(businessRules) = 1
  /\ businessRules[1].name = "Co-Run Tasks Rule"
  /\ ruleSuggestions = <<>>

(***************************************************************************)
(* Properties of handleFiles                                               *)
(***************************************************************************)
\* a handleFiles call has just completed
Uploaded == lastAction = Did("handleFiles", TRUE)

\* every record of the list is in the other list
KeptIn(before, after) ==
  \A i \in 1..Len(before) : \E j \in 1..Len(after) : after[j] = before[i]

\* C25: when two handleFiles calls overlap, the store holds the records of
\* both once both have completed, i.e. the call that completes second keeps
\* what the first one stored, and state.validationErrors is validateData of
\* the stored collections.
C25_OverlappingUploads ==
  [][Uploaded' =>
       /\ KeptIn(clients, clients')
       /\ KeptIn(workers, workers')
       /\ KeptIn(tasks, tasks')
       /\ validationErrors' = validateData(clients', workers', tasks').errors
  ]_vars

\* no two records of the list share the id
DistinctIds(records, idField) ==
  \A i, j \in 1..Len(records) : i # j => records[i][idField] # records[j][idField]

NoSharedIds ==
  /\ DistinctIds(clients, "ClientID")
  /\ DistinctIds(workers, "WorkerID")
  /\ DistinctIds(tasks, "TaskID")

\* C26: the upload merge avoids duplicates: when no two records of a
\* collection of the store share an id before handleFiles runs, none do
\* after it has completed, whatever the parsed file holds; the records of
\* the store are kept.
C26_MergeAvoidsDuplicates ==
  [][(Uploaded' /\ NoSharedIds /\ Len(uploads) = 1 /\ uploads[1].processedData = Snapshot)
       => /\ NoSharedIds'
          /\ SubSeq(clients', 1, Len(clients)) = clients
          /\ SubSeq(workers', 1, Len(workers)) = workers
          /\ SubSeq(tasks', 1, Len(tasks)) = tasks
  ]_vars

(***************************************************************************)
(* Properties of the file parser                                           *)
(***************************************************************************)
\* the ids of the parsed records, in row order
ParsedIds ==
  CASE sheet.entity = "clients" -> [n \in 1..Len(clients) |-> clients[n].ClientID]
    [] sheet.entity = "workers" -> [n \in 1..Len(workers) |-> workers[n].WorkerID]
    [] sheet.entity = "tasks" -> [n \in 1..Len(tasks) |-> tasks[n].TaskID]

\* the row has no id cell, under any of the headers the parser knows, or an
\* empty one
WithoutId(row) ==
  \A k \in DOMAIN row :
    HeaderLower(k) \in {"clientid", "workerid", "taskid", "client_id", "worker_id",
                        "task_id", "client id", "worker id", "task id", "id"}
      => row[k].text \in {"", "0"}

\* the prefix of the synthetic ids of the entity type of the sheet
Prefix ==
  CASE sheet.entity = "clients" -> "client" [] sheet.entity = "workers" -> "worker"
    [] sheet.entity = "tasks" -> "task"

\* C30: every record produced by parseClients, parseWorkers and parseTasks
\* has a non-empty id, a row without an id getting the synthetic id
\* <entity>_<row index + 1>, so validateData on the freshly imported
\* collections reports no missing id.
C30_ParsedIdsNonEmpty ==
  sheet.parsed =>
    /\ Len(ParsedIds) = Len(sheet.rows)
    /\ \A n \in 1..Len(ParsedIds) :
         /\ ParsedIds[n] # ""
         /\ WithoutId(sheet.rows[n]) => ParsedIds[n] = SyntheticId(Prefix, n)
    /\ vrun.done =>
         /\ ~vrun.threw
         /\ \A k \in 1..Len(vrun.errors) :
              vrun.errors[k].id[3] # "no_id" /\ vrun.errors[k].rowId[1] # "row"

\* a sheet of two client rows, the second with the id cell 0: it became
\* client_2, and the validation that followed returned findings, none for a
\* missing id
C30_Witness ==
  /\ sheet.parsed
  /\ vrun.done
  /\ sheet.entity = "clients"
  /\ Len(clients) = 2
  /\ clients[1].ClientID = "C1"
  /\ clients[2].ClientID = "client_2"
  /\ sheet.rows[2].ClientID = Num("0")
  /\ vrun.errors # <<>>

(***************************************************************************)
(* Properties of the priority controls                                     *)
(***************************************************************************)
WeightNames ==
  {"priorityLevel", "taskFulfillment", "fairnessConstraints", "skillMatching",
   "phaseOptimization", "workloadBalance", "clientSatisfaction", "resourceUtilization"}

RECURSIVE TotalWeight(_, _)
\* the sum of the weights of the given names
TotalWeight(settings, names) ==
  IF names = {} THEN 0
  ELSE LET name == CHOOSE x \in names : TRUE
       IN settings[name] + TotalWeight(settings, names \ {name})

\* C28: in every store state reached through the priority controls, a
\* priorityProfile that names a predefined profile (balanced, clientFirst,
\* efficiency, fairness) comes with exactly the weights of that profile,
\* which add up to 100; after a slider change the profile is 'custom'.
C28_ProfileMatchesSettings ==
  /\ [](priorityProfile \in {"balanced", "clientFirst", "efficiency", "fairness"} =>
          /\ prioritySettings = priorityProfiles[priorityProfile]
          /\ DOMAIN prioritySettings = WeightNames
          /\ TotalWeight(prioritySettings, WeightNames) = 100)
  /\ [][lastAction'.type = "handlePriorityChange" => priorityProfile' = "custom"]_vars

\* the profile 'efficiency' was chosen and then a slider moved: the profile
\* is 'custom' and the weights are those of 'efficiency' but for the moved one
C28_Witness ==
  /\ lastAction = DidWith("handlePriorityChange", TRUE, <<"priorityLevel">>)
  /\ priorityProfile = "custom"
  /\ prioritySettings = [priorityProfiles["efficiency"] EXCEPT !.priorityLevel = 50]

(***************************************************************************)
(* Properties of generateRuleSuggestions                                   *)
(***************************************************************************)
\* the suggestions have just been extracted from a text
Extracted == lastAction.type = "SET_RULE_SUGGESTIONS"

\* the characters of the text the suggestions were extracted from
InputChars == JoinChars(TextSamples[lastAction.arg[1]])

OfType(type) == SelectSeq(ruleSuggestions, LAMBDA s : s.type = type)

\* one of the cues occurs in the text, whatever the case of its letters
HasCue(cues) == \E cue \in cues : IsSubstring(JoinChars(cue), ToLowerCase(InputChars))

\* the places of the text where a t or T is followed by a digit
TaskIdStarts ==
  {p \in 1..(Len(InputChars) - 1) :
     InputChars[p] \in {"t", "T"} /\ InputChars[p + 1] \in Digits}

\* the task id that starts at p: the letter and all the digits behind it
TaskIdAt(p) ==
  LET ends == {q \in (p + 1)..Len(InputChars) :
                 \A r \in (p + 1)..q : InputChars[r] \in Digits}
  IN SubSeq(InputChars, p, CHOOSE q \in ends : \A r \in ends : r <= q)

\* the k-th place of a set of places
Nth(places, k) == CHOOSE p \in places : Cardinality({q \in places : q < p}) = k - 1

\* C21: a co-run suggestion is extracted if and only if the text holds
\* 'together', 'co-run' or 'same time' in any case and at least two task ids
\* (t or T followed by digits); it has confidence 85 and lists all the ids in
\* order of occurrence; the text "Tasks T12 and T14 should always run
\* together" yields exactly one suggestion, a co-run of T12 and T14.
C21_CoRunSuggestion ==
  Extracted =>
    /\ Len(OfType("coRun"))
         = (IF /\ HasCue({<<"together">>, <<"co-run">>, <<"same", "time">>})
               /\ Cardinality(TaskIdStarts) >= 2
              THEN 1 ELSE 0)
    /\ \A n \in 1..Len(OfType("coRun")) :
         LET suggestion == OfType("coRun")[n]
         IN /\ suggestion.confidence = 85
            /\ Len(suggestion.parameters.tasks) = Cardinality(TaskIdStarts)
            /\ \A k \in 1..Cardinality(TaskIdStarts) :
                 Chars(suggestion.parameters.tasks[k]) = TaskIdAt(Nth(TaskIdStarts, k))
    /\ lastAction.arg = <<1>> =>
         /\ TextSamples[1]
              = <<"Tasks", "T12", "and", "T14", "should", "always", "run", "together">>
         /\ Len(ruleSuggestions) = 1
         /\ ruleSuggestions[1].type = "coRun"
         /\ ruleSuggestions[1].parameters.tasks = <<"T12", "T14">>

\* two ids in one word and the cue 'same time' across two words give a
\* co-run of both ids
C21_Witness ==
  /\ Extracted
  /\ TextSamples[lastAction.arg[1]] = <<"T12,T14", "at", "the", "same", "time">>
  /\ Len(ruleSuggestions) = 1
  /\ ruleSuggestions[1].type = "coRun"
  /\ ruleSuggestions[1].confidence = 85
  /\ ruleSuggestions[1].parameters.tasks = <<"T12", "T14">>

\* the phase specification of the text: what follows the first 'phase'
PhaseSpec == PhaseAt(Slice(InputChars, Min(PhasePositions(InputChars))))[1]

\* the integers from a to b
Interval(a, b) == [i \in 1..(b - a + 1) |-> a + i - 1]

\* the numbers of one comma-separated item: n for 'n', a..b for 'a-b'
ItemPhases(item) ==
  LET ends == SplitPhases(item, <<>>)
      number(k) == ParseDigitRun(Trim(ends[k]), 0)
  IN IF Len(ends) = 1 THEN <<number(1)>> ELSE Interval(number(1), number(Len(ends)))

\* the phase list the specification stands for
ExpandedPhases ==
  LET items == SplitOnComma(PhaseSpec, <<>>)
  IN FlatSeq([k \in 1..Len(items) |-> ItemPhases(items[k])])

\* C22: a text with 'phase', 'only' or 'restrict', a task id and a phase
\* specification yields a phase-window suggestion with confidence 82 whose
\* allowedPhases keeps the comma-separated values and expands every
\* hyphenated pair into the inclusive range ('phase 1-3' gives 1, 2, 3).
C22_PhaseWindowExpanded ==
  (/\ Extracted
   /\ HasCue({<<"phase">>})
   /\ HasCue({<<"only">>, <<"restrict">>})
   /\ TaskIdStarts # {}
   /\ PhasePositions(InputChars) # {})
  => (/\ Len(OfType("phaseWindow")) = 1
      /\ OfType("phaseWindow")[1].confidence = 82
      /\ OfType("phaseWindow")[1].parameters.allowedPhases = ExpandedPhases)

(***************************************************************************)
(* Properties of searchWithNaturalLanguage                                 *)
(***************************************************************************)
Searched == search.done

\* the duration comparison a query carries, read off its words: the word
\* duration, optionally `of`, a comparison phrase and a number
PhraseOperator ==
  [p \in {<<"more", "than">>, <<"less", "than">>, <<"equal", "to">>, <<"equals">>} |->
     CASE p = <<"more", "than">> -> ">" [] p = <<"less", "than">> -> "<" [] OTHER -> "="]

CarriedDuration(tokens) ==
  {[operator |-> PhraseOperator[p], value |-> ParseDigitRun(Chars(tokens[j + Len(p)]), 0)] :
     <<j, p>> \in {x \in (2..Len(tokens)) \X DOMAIN PhraseOperator :
                     /\ x[1] + Len(x[2]) <= Len(tokens)
                     /\ SubSeq(tokens, x[1], x[1] + Len(x[2]) - 1) = x[2]
                     /\ Chars(tokens[x[1] + Len(x[2])]) # <<>>
                     /\ Range(Chars(tokens[x[1] + Len(x[2])])) \subseteq Digits
                     /\ \/ tokens[x[1] - 1] = "duration"
                        \/ /\ x[1] > 2
                           /\ tokens[x[1] - 1] = "of"
                           /\ tokens[x[1] - 2] = "duration"}}

\* C16: a query with a duration comparison phrased with more than, less than
\* or equal(s) to, such as "tasks having a Duration of more than 5", yields a
\* duration criterion with the normalized operator and the number.
C16_DurationCriterionExtracted ==
  Searched =>
    \A d \in CarriedDuration(QueryTokens(search.query)) : search.criteria.duration = <<d>>

\* the comparison `x operator value`
Holds(operator, x, value) ==
  CASE operator = ">" -> x > value
    [] operator = "<" -> x < value
    [] operator = ">=" -> x >= value
    [] operator = "<=" -> x <= value
    [] operator = "=" -> x = value

\* C17: when the query carries a duration comparison, every task in the
\* returned list satisfies it; a task that fails it is not returned.
C17_ResultsSatisfyDuration ==
  Searched =>
    \A d \in Range(search.criteria.duration) \cup CarriedDuration(QueryTokens(search.query)) :
      \A k \in 1..Len(search.results) :
        search.results[k].entity = "tasks" =>
          \A n \in 1..Len(tasks) :
            tasks[n].TaskID = search.results[k].id =>
              Holds(d.operator, tasks[n].Duration, d.value)

\* the sum of the weights of the criteria that match a task, a worker, a client
TaskWeights(task, criteria) ==
  (IF \E d \in Range(criteria.duration) : Holds(d.operator, task.Duration, d.value)
     THEN 10 ELSE 0)
  + (IF \E p \in Range(criteria.priority) : Holds(p.operator, task.PriorityLevel, p.value)
       THEN 8 ELSE 0)
  + (IF \E ps \in Range(criteria.phase) : Range(ps) \cap Range(task.PreferredPhases) # {}
       THEN 6 ELSE 0)
  + (IF criteria.skills = <<>> THEN 0
     ELSE 4 * MatchingSkills(criteria.skills[1], task.RequiredSkills))
  + (IF PhraseMatches(criteria.name, task.Name) THEN 5 ELSE 0)

WorkerWeights(worker, criteria) ==
  (IF criteria.skills = <<>> THEN 0
   ELSE 6 * MatchingSkills(criteria.skills[1], worker.Skills))
  + (IF PhraseMatches(criteria.location, worker.Location) THEN 8 ELSE 0)
  + (IF PhraseMatches(criteria.name, worker.Name) THEN 5 ELSE 0)

ClientWeights(client, criteria) ==
  (IF PhraseMatches(criteria.location, client.Location) THEN 8 ELSE 0)
  + (IF PhraseMatches(criteria.name, client.Name) THEN 5 ELSE 0)

\* C18: a record on which at least one structured criterion matches scores
\* exactly the sum of the matched weights (task: duration 10, priority 8 for
\* each of the operators >, <, >=, <=, =, phase 6, 4 per skill keyword, name
\* 5; worker: 6 per skill keyword, location 8, name 5; client: location 8,
\* name 5).
C18_ScoreIsSumOfWeights ==
  Searched =>
    /\ \A n \in 1..Len(tasks) :
         TaskWeights(tasks[n], search.criteria) > 0 =>
           search.scored.tasks[n].score = TaskWeights(tasks[n], search.criteria)
    /\ \A n \in 1..Len(workers) :
         WorkerWeights(workers[n], search.criteria) > 0 =>
           search.scored.workers[n].score = WorkerWeights(workers[n], search.criteria)
    /\ \A n \in 1..Len(clients) :
         ClientWeights(clients[n], search.criteria) > 0 =>
           search.scored.clients[n].score = ClientWeights(clients[n], search.criteria)

\* the searchable text of a record, field by field: id, name, skills and
\* location as the record has them, and for a client its contact info when
\* withContact
SearchableFields(entity, item, withContact) ==
  CASE entity = "tasks" -> <<item.TaskID, item.Name>> \o item.RequiredSkills
    [] entity = "workers" -> <<item.WorkerID, item.Name, item.Location>> \o item.Skills
    [] entity = "clients" ->
         <<item.ClientID, item.Name, item.Location>>
         \o (IF withContact THEN <<item.ContactInfo>> ELSE <<>>)

Collection(entity) ==
  CASE entity = "tasks" -> tasks [] entity = "workers" -> workers [] entity = "clients" -> clients

IdOf(entity, item) ==
  CASE entity = "tasks" -> item.TaskID [] entity = "workers" -> item.WorkerID
    [] entity = "clients" -> item.ClientID

Entities == {"tasks", "workers", "clients"}

\* the records of all collections, as <<entity, index>>
AllRecords ==
  UNION {{<<e, n>> : n \in 1..Len(Collection(e))} : e \in Entities}

\* the query tokens that are substrings of the searchable text
TokenOverlap(entity, item, withContact) ==
  LET fields == SearchableFields(entity, item, withContact)
  IN Cardinality({k \in 1..Len(search.query) :
                    IsSubstring(Chars(LowerCase(search.query[k])),
                                JoinChars([n \in 1..Len(fields) |-> LowerCase(fields[n])]))})

FallbackRule(withContact) ==
  Searched =>
    /\ \A r \in AllRecords :
         LET s == search.scored[r[1]][r[2]]
         IN s.score = IF s.criteria = 0
                        THEN 2 * TokenOverlap(r[1], Collection(r[1])[r[2]], withContact)
                        ELSE s.criteria
    /\ \A k \in 1..Len(search.results) : search.results[k].score > 0
    /\ Len(search.results)
         = Cardinality({r \in AllRecords : search.scored[r[1]][r[2]].score > 0})
    /\ \A r \in AllRecords :
         (\E k \in 1..Len(search.results) :
            /\ search.results[k].entity = r[1]
            /\ search.results[k].id = IdOf(r[1], Collection(r[1])[r[2]]))
           <=> search.scored[r[1]][r[2]].score > 0

\* C19 as stated: the token-overlap fallback is applied to a record exactly
\* when the structured criteria gave it 0, and then adds 2 for every query
\* token that is a substring of its searchable text (id, name, skills,
\* location); a record whose final score is 0 is not returned and every
\* returned result has a score above 0.
C19_FallbackAndExclusion == FallbackRule(FALSE)

\* C19 amended: the same, the searchable text of a client being its id,
\* name, location and contact info.
C19_FallbackOverContactInfo == FallbackRule(TRUE)

\* "js in London": a task found by the fallback only (js, +2), a worker
\* scored by its location alone although two tokens are in its text, and a
\* task with nothing in common left out
C19_Witness ==
  /\ Searched
  /\ search.query = <<"js", "in", "London">>
  /\ \E n \in 1..Len(tasks) :
       search.scored.tasks[n].criteria = 0 /\ search.scored.tasks[n].score = 2
  /\ \E n \in 1..Len(tasks) : search.scored.tasks[n].score = 0
  /\ \E n \in 1..Len(workers) :
       /\ search.scored.workers[n].criteria = 8
       /\ search.scored.workers[n].score = 8
       /\ TokenOverlap("workers", workers[n], TRUE) = 2
  /\ Len(search.results) = Len(tasks) + Len(workers) + Len(clients) - 1

\* a non-empty whitespace-delimited token of the query occurs in the
\* searchable text of the record
SharesWord(entity, item) ==
  LET fields == SearchableFields(entity, item, TRUE)
  IN \E k \in 1..Len(search.query) :
       /\ search.query[k] # ""
       /\ IsSubstring(Chars(LowerCase(search.query[k])),
                      JoinChars([n \in 1..Len(fields) |-> LowerCase(fields[n])]))

\* C29: in fallback (token-overlap) mode a record is returned only if a
\* non-empty token of the query occurs in its searchable text; whitespace
\* at the start or the end of the query makes no record match that shares
\* no word with it.
C29_FallbackNeedsSharedWord ==
  Searched =>
    \A r \in AllRecords :
      (search.scored[r[1]][r[2]].criteria = 0 /\ search.scored[r[1]][r[2]].score > 0)
        => SharesWord(r[1], Collection(r[1])[r[2]])

\* the records of one collection in collection order, each with the score the
\* call gave it
Encountered(entity) ==
  [n \in 1..Len(Collection(entity)) |->
     [entity |-> entity, id |-> IdOf(entity, Collection(entity)[n]),
      score |-> search.scored[entity][n].score]]

\* the order in which the three forEach loops meet the records
EncounterOrder == Encountered("tasks") \o Encountered("workers") \o Encountered("clients")

\* the <<entity, id>> of the entries of a list that carry the score s, in order
WithScore(list, s) ==
  LET kept == SelectSeq(list, LAMBDA r : r.score = s)
  IN [n \in 1..Len(kept) |-> <<kept[n].entity, kept[n].id>>]

\* C20: the returned list is sorted by score in non-increasing order, and
\* results with equal score keep their encounter order (tasks in collection
\* order, then workers, then clients).
C20_SortedStable ==
  Searched =>
    /\ \A k, l \in 1..Len(search.results) :
         k < l => search.results[k].score >= search.results[l].score
    /\ \A k \in 1..Len(search.results) :
         WithScore(search.results, search.results[k].score)
           = WithScore(EncounterOrder, search.results[k].score)

\* a task scoring 2 was encountered first and is returned last, behind a
\* worker and a client that tie at 8 and keep their order
C20_Witness ==
  /\ Searched
  /\ Len(search.results) = 3
  /\ search.results[1].entity = "workers" /\ search.results[1].score = 8
  /\ search.results[2].entity = "clients" /\ search.results[2].score = 8
  /\ search.results[3].entity = "tasks" /\ search.results[3].score = 2

====
